---------------------------- MODULE Spec2Model ----------------------------
(***************************************************************************)
(* A model of the FSI coupling layer of OpenIFEM (MPI::FSI<dim>), taken    *)
(* from source/hyper_elasticity.cpp (the part that holds mpi_fsi.cpp).     *)
(*                                                                         *)
(* Three specifications share the module:                                  *)
(*   SpecPoint  FSI::point_in_solid applied to bounded geometric inputs    *)
(*   SpecBC     FSI::find_fluid_bc on a small Taylor-Hood fluid mesh       *)
(*   Spec       FSI::run, the time loop with the mesh motion toggles       *)
(* Coordinates are integers: a length of the code is a number of grid      *)
(* units here, and every comparison the code makes on doubles is made on   *)
(* exact values (the inputs are chosen so that no rounding takes place).   *)
(***************************************************************************)
EXTENDS Integers, Sequences, FiniteSets, TLC

VARIABLES
  \* ---- SpecPoint: one evaluation of point_in_solid
  pt_pc,        \* "off" | "input" | "done"
  pt_dim,       \* the template parameter dim (2 or 3)
  pt_solid,     \* index of the solid in the catalogue
  pt_order,     \* how solid_boundaries is ordered / oriented
  pt_box,       \* solid_box, <<xlo, xhi, ylo, yhi (, zlo, zhi)>>
  pt_point,     \* the query point
  pt_result,    \* [result, examined] of the call
  \* ---- SpecBC: one call of find_fluid_bc
  bc_pc,        \* "off" | "ready" | "returned" | "thrown"
  bc_degree,    \* polynomial degree of the fluid velocity element (1 or 2)
  bc_solid,     \* index of the deformed solid in BCSolids
  bc_owned,     \* the columns of fluid cells this process owns
  bc_motion,    \* 0: solid at rest, 1: solid in motion (velocity, acceleration, stress)
  bc_present,   \* 0: fluid at rest, 1: a flowing fluid.present_solution
  bc_lost,      \* a point the solid-mesh locator cannot find, or <<>>
  bc_moved,     \* the solid mesh is in the displaced configuration
  bc_nonzero,   \* fluid_solver.nonzero_constraints: dof -> inhomogeneity
  bc_zero,      \* fluid_solver.zero_constraints: dof -> inhomogeneity
  bc_inner,     \* inner_nonzero, inner_zero, dof_touched and the add_line count
  bc_prop,      \* fluid_solver.cell_property: <<cell, q>> -> record
  bc_peer,      \* the same call on the process that owns the other columns
  \* ---- the solid mesh, its motion and the cached box (SpecMotion, Spec)
  vertex,               \* solid_solver.triangulation vertices: index -> <<x, y>>
  current_displacement, \* solid_solver.current_displacement: index -> <<dx, dy>>
  mesh_depth,           \* move_solid_mesh(true) calls not yet undone
  solid_box,            \* FSI::solid_box
  \* ---- SpecMotion: the coupling operations called one after another
  mo_pc,        \* "off" | "idle" | the operation whose scope is open | "thrown"
  \* ---- Spec: FSI::run
  pc,                  \* the statement of run() that is next, "done", "aborted"
                       \* or "restart_error"
  success_load,        \* run()'s local success_load
  first_step,          \* run()'s local first_step
  time_step,           \* time.get_timestep() of the orchestrator's clock
  solid_timestep,      \* solid_solver.time.get_timestep()
  fluid_timestep,      \* fluid_solver.time.get_timestep()
  solid_current,       \* solid_solver.time.current(), in ticks
  fluid_current,       \* fluid_solver.time.current(), in ticks
  end_time,            \* parameters.end_time, in ticks
  refinement_interval, \* parameters.refinement_interval, in time steps
  save_interval,       \* parameters.save_interval, in time steps
  iter_ops,            \* the operations completed in the current loop iteration
  iter_first,          \* first_step as it was when the iteration began
  fluid_generation,    \* how often the fluid triangulation has been rebuilt
  cell_hints,          \* cell_hints: fluid cell -> its hints
  solid_saved,         \* the step indices of the solid checkpoints written
  fluid_saved,         \* the step indices of the fluid checkpoints written
  nonzero_constraints, \* fluid_solver.nonzero_constraints: dof -> inhomogeneity
  zero_constraints,    \* fluid_solver.zero_constraints: dof -> inhomogeneity
  \* ---- SpecSolid: the solid solver's run_one_step
  so_pc,                  \* "off" | "idle" | "newton" | "thrown"
  so_kind,                \* "hyper" (SharedHyperElasticity) | "linear"
  so_fresh,               \* the run was not restored: the first call has first_step
  solid_max_iterations,   \* parameters.solid_max_iterations
  newton_iteration,       \* run_one_step's local newton_iteration
  unconverged,            \* the condition of the Newton loop
  so_begun,               \* calls of run_one_step so far
  so_finalized,           \* executions of the finalization block so far
  previous_displacement,
  previous_velocity,
  previous_acceleration,
  so_displacement,        \* the solver's current_displacement
  current_velocity,
  current_acceleration,
  so_simulation_type,     \* parameters.simulation_type of the solid solver's run
  so_timestep,            \* the step index of the solid solver's clock
  so_refinement_interval, \* parameters.refinement_interval, in steps
  so_save_interval,       \* parameters.save_interval, in steps
  so_refinements,         \* the steps at which the solver has refined its mesh
  so_checkpoints,         \* the steps at which the solver has saved a checkpoint
  \* ---- SpecTraction: find_solid_bc and the solid assembly on every process
  simulation_type,        \* parameters.simulation_type: "FSI" | "Solid"
  solid_neumann_bc_type,  \* parameters.solid_neumann_bc_type
  tr_owner,               \* solid cell -> the process whose subdomain it is in
  tr_holder,              \* which process holds the fluid cell around a point
  tr_pc,                  \* process -> "off" | "find_solid_bc" | "assemble" | "done"
  tr_step,                \* process -> the coupling step it is in
  tr_next,                \* process -> position in the loops of find_solid_bc
  tr_posted,              \* process -> its pending contribution to the reduction
  tr_reductions,          \* process -> number of reductions it has completed
  fsi_traction,           \* process -> cell -> record index -> fsi_traction
  tr_load,                \* process -> point -> traction used by the assembly
  \* ---- SpecRefine: refine_mesh on the fluid triangulation
  rf_mesh,                \* the active fluid cells, <<level, index in the level>>
  rf_before,              \* the active cells at the beginning of the last call
  rf_solid,               \* the centers of the moved solid cells in the last call
  rf_marked,              \* cell -> the flag set by the first loop of the last call
  rf_flags,               \* cell -> its flag after the flags were cleared
  \* ---- SpecNewton: the Newton loops of the serial and of the MPI solver
  tol_d,                  \* parameters.tol_d, as <<numerator, denominator>>
  tol_f,                  \* parameters.tol_f, as <<numerator, denominator>>
  nw_max_iterations,      \* parameters.solid_max_iterations
  nw_errors,              \* the errors the passes yield: <<residual, update>> each
  nw_solver,              \* solver -> the locals and error members of run_one_step
  \* ---- SpecVolume: SharedHyperElasticity::compute_volume on every process
  vol_owner,              \* solid cell -> cell->subdomain_id()
  vol_cell,               \* solid cell -> the sum of det_F * JxW over the cell
  vol_debug,              \* the build keeps Assert (debug mode)
  vol_pc,                 \* process -> "off" | "loop" | "sum" | "assert" | "returned" | "aborted"
  volume,                 \* process -> the local variable volume
  vol_reduced,            \* process -> what Utilities::MPI::sum returned to it
  vol_result              \* process -> the value compute_volume returned

varsPt == <<pt_pc, pt_dim, pt_solid, pt_order, pt_box, pt_point, pt_result>>

varsBC == <<bc_pc, bc_degree, bc_solid, bc_owned, bc_motion, bc_present, bc_lost,
            bc_moved, bc_nonzero, bc_zero, bc_inner, bc_prop, bc_peer>>

varsMesh == <<vertex, current_displacement, mesh_depth, solid_box>>

varsMo == <<mo_pc>>

varsRun == <<pc, success_load, first_step, time_step, solid_timestep, fluid_timestep,
             solid_current, fluid_current, end_time, refinement_interval, save_interval, iter_ops, iter_first,
             fluid_generation, cell_hints, solid_saved, fluid_saved,
             nonzero_constraints, zero_constraints>>

varsSo == <<so_pc, so_kind, so_fresh, solid_max_iterations, newton_iteration,
            unconverged, so_begun, so_finalized,
            previous_displacement, previous_velocity, previous_acceleration,
            so_displacement, current_velocity, current_acceleration,
            so_simulation_type, so_timestep, so_refinement_interval,
            so_save_interval, so_refinements, so_checkpoints>>

varsTr == <<simulation_type, solid_neumann_bc_type, tr_owner, tr_holder, tr_pc,
            tr_step, tr_next, tr_posted, tr_reductions, fsi_traction, tr_load>>

\* The variables of the specifications of the operations that every process
\* executes.
varsRf == <<rf_mesh, rf_before, rf_solid, rf_marked, rf_flags>>

varsNw == <<tol_d, tol_f, nw_max_iterations, nw_errors, nw_solver>>

varsVol == <<vol_owner, vol_cell, vol_debug, vol_pc, volume, vol_reduced, vol_result>>

varsColl == <<varsTr, varsRf, varsNw, varsVol>>

\* The variables of the specifications of the coupling on one process.
varsCore == <<varsPt, varsBC, varsMesh, varsMo, varsRun, varsSo>>

vars == <<varsCore, varsColl>>

----------------------------------------------------------------------------
(* Small helpers                                                            *)

Sign(n) == IF n > 0 THEN 1 ELSE IF n < 0 THEN -1 ELSE 0

Min2(a, b) == IF a < b THEN a ELSE b

Max2(a, b) == IF a > b THEN a ELSE b

----------------------------------------------------------------------------
(* Geometry inputs of SpecPoint                                            *)

\* The solids of the catalogue lie in [0,4] on every axis; query points range
\* over that interval widened by PtMargin on both sides.
PtMargin == 1

\* 2-D solids: the closed polygon of boundary vertices, in boundary order.
\* 1 a square whose sides are split by mid-side vertices (a 2x2 solid mesh)
\* 2 a diamond, 3 a triangle, 4 a convex quadrilateral with slanted sides,
\* 5 an L shape (non-convex, an inner horizontal side), 6 a square with a
\* V notch in its top (a re-entrant vertex), 7 two towers with a bump.
Polygons ==
  << << <<0,0>>, <<2,0>>, <<4,0>>, <<4,2>>, <<4,4>>, <<2,4>>, <<0,4>>, <<0,2>> >>,
     << <<2,0>>, <<4,2>>, <<2,4>>, <<0,2>> >>,
     << <<0,0>>, <<4,2>>, <<0,4>> >>,
     << <<0,0>>, <<3,0>>, <<4,2>>, <<2,4>>, <<0,3>> >>,
     << <<0,0>>, <<4,0>>, <<4,2>>, <<2,2>>, <<2,4>>, <<0,4>> >>,
     << <<0,0>>, <<4,0>>, <<4,4>>, <<2,2>>, <<0,4>> >>,
     << <<0,0>>, <<4,0>>, <<4,4>>, <<3,4>>, <<3,1>>, <<2,2>>, <<1,1>>, <<1,4>>, <<0,4>> >> >>

\* Which polygons of the catalogue are convex.
ConvexPolygons == {1, 2, 3, 4}

\* 3-D solids: the active solid cells, each an axis-aligned hexahedron
\* <<lower corner, upper corner>>.
Hexes ==
  << << << <<0,0,0>>, <<2,2,2>> >> >>,
     << << <<0,0,0>>, <<2,2,2>> >>, << <<2,0,0>>, <<4,2,2>> >> >> >>

\* The faces of a 2-D solid's boundary, as collect_solid_boundaries leaves
\* them: face i joins vertex i to vertex i+1 of the polygon.
BoundaryOf(poly) ==
  [i \in 1..Len(poly) |-> <<poly[i], poly[(i % Len(poly)) + 1]>>]

Reverse(s) == [i \in 1..Len(s) |-> s[Len(s) + 1 - i]]

\* The order and the orientation of the faces depend on the cell numbering
\* of the solid mesh: 0 boundary order, 1 reverse order, 2 every face with
\* vertex(0) and vertex(1) exchanged, 3 every second face exchanged and the
\* list rotated by one.
OrderVariants == 0..3

Arrange(segs, k) ==
  CASE k = 0 -> segs
    [] k = 1 -> Reverse(segs)
    [] k = 2 -> [i \in 1..Len(segs) |-> <<segs[i][2], segs[i][1]>>]
    [] OTHER -> [i \in 1..Len(segs) |->
                   LET j == (i % Len(segs)) + 1
                   IN  IF j % 2 = 0 THEN <<segs[j][2], segs[j][1]>> ELSE segs[j]]

----------------------------------------------------------------------------
(* FSI::point_in_solid                                                      *)

\* The first loop: the point is inside the box on every axis.
InSolidBox(dim, box, point) ==
  \A i \in 1..dim : ~(point[i] < box[2 * i - 1] \/ point[i] > box[2 * i])

\* The sign of r2[0] + p2(0) - point(0), where r1 = p1 - p2 and
\* r2 = r1 * (point(1) - p2(1)) / r1[1], or r2 = 0 for a horizontal face.
AbscissaCmp(p1, p2, point) ==
  LET r1x == p1[1] - p2[1]
      r1y == p1[2] - p2[2]
  IN  IF r1y = 0
        THEN Sign(p2[1] - point[1])
        ELSE Sign(r1x * (point[2] - p2[2]) + (p2[1] - point[1]) * r1y) * Sign(r1y)

\* The loop over solid_boundaries from face k on, with the two counters;
\* "examined" counts the faces the loop has looked at.
RECURSIVE ScanBoundaries(_, _, _, _, _, _)
ScanBoundaries(segs, k, box, point, cross_number, half_cross_number) ==
  IF k > Len(segs)
    THEN [result |-> ((cross_number + (half_cross_number \div 2)) % 2 # 0),
          examined |-> Len(segs)]
    ELSE
      LET p1 == segs[k][1]
          p2 == segs[k][2]
          y_diff1 == p1[2] - point[2]
          y_diff2 == p2[2] - point[2]
          x_diff1 == p1[1] - point[1]
          x_diff2 == p2[1] - point[1]
          cmp == AbscissaCmp(p1, p2, point)
          found == [result |-> TRUE, examined |-> k]
      IN  IF y_diff1 * y_diff2 < 0
            THEN IF cmp > 0
                   THEN ScanBoundaries(segs, k + 1, box, point,
                                       cross_number + 1, half_cross_number)
                   ELSE IF cmp = 0
                          THEN found
                          ELSE ScanBoundaries(segs, k + 1, box, point,
                                              cross_number, half_cross_number)
            ELSE IF y_diff1 * y_diff2 = 0
              THEN IF y_diff1 = 0 /\ y_diff2 = 0
                     THEN IF x_diff1 * x_diff2 < 0
                            THEN found
                            ELSE ScanBoundaries(segs, k + 1, box, point,
                                                cross_number, half_cross_number)
                     ELSE IF cmp > 0
                            THEN ScanBoundaries(segs, k + 1, box, point, cross_number,
                                   IF point[2] # box[3] /\ point[2] # box[4]
                                     THEN half_cross_number + 1
                                     ELSE half_cross_number)
                            ELSE IF point = p1 \/ point = p2
                                   THEN found
                                   ELSE ScanBoundaries(segs, k + 1, box, point,
                                                       cross_number, half_cross_number)
              ELSE ScanBoundaries(segs, k + 1, box, point,
                                  cross_number, half_cross_number)

\* cell->point_inside(point) for an axis-aligned cell.
CellPointInside(cell, point) ==
  \A i \in 1..Len(point) : cell[1][i] <= point[i] /\ point[i] <= cell[2][i]

\* The 3-D loop over the active solid cells.
RECURSIVE ScanCells(_, _, _)
ScanCells(cells, k, point) ==
  IF k > Len(cells)
    THEN [result |-> FALSE, examined |-> Len(cells)]
    ELSE IF CellPointInside(cells[k], point)
           THEN [result |-> TRUE, examined |-> k]
           ELSE ScanCells(cells, k + 1, point)

BoxFilterSkipped(dim, box, point) == TRUE

BoxFilter(dim, box, point) == InSolidBox(dim, box, point)

point_in_solid(dim, cells, segs, box, point) ==
  IF ~BoxFilter(dim, box, point)
    THEN [result |-> FALSE, examined |-> 0]
    ELSE IF dim = 2
           THEN ScanBoundaries(segs, 1, box, point, 0, 0)
           ELSE ScanCells(cells, 1, point)

----------------------------------------------------------------------------
(* FSI::update_solid_box on a list of (deformed) vertices                   *)

RECURSIVE BoxOver(_, _, _, _)
BoxOver(verts, k, dim, box) ==
  IF k > Len(verts)
    THEN box
    ELSE BoxOver(verts, k + 1, dim,
           [j \in 1..(2 * dim) |->
              LET i == (j + 1) \div 2
                  c == verts[k][i]
              IN  IF j % 2 = 1
                    THEN (IF c < box[j] THEN c ELSE box[j])
                    ELSE (IF c < box[j - 1] THEN box[j]
                          ELSE IF c > box[j] THEN c ELSE box[j])])

SolidBoxOfFirstVertex(verts, dim) ==
  [j \in 1..(2 * dim) |-> verts[1][(j + 1) \div 2]]

SolidBoxOf(verts, dim) ==
  BoxOver(verts, 1, dim, [j \in 1..(2 * dim) |-> verts[1][(j + 1) \div 2]])

\* solid_box.reinit(2 * dim) in the constructor: all zero.
ZeroBox(dim) == [j \in 1..(2 * dim) |-> 0]

\* The vertices of a 3-D solid (the corners that span its cells).
HexVertices(cells) ==
  [i \in 1..(2 * Len(cells)) |-> cells[(i + 1) \div 2][IF i % 2 = 1 THEN 1 ELSE 2]]

----------------------------------------------------------------------------
(* The solid mesh: a row of SolidNx quadrilateral cells of side 2, whose    *)
(* neighbours share two vertices.  Vertex (i, j) has the index              *)
(* j * (SolidNx + 1) + i + 1.                                               *)

SolidNx == 2

SolidVertexIndices == 1..(2 * (SolidNx + 1))

VertexColumn(idx) == (idx - 1) % (SolidNx + 1)

VertexRow(idx) == (idx - 1) \div (SolidNx + 1)

\* The reference configuration.
RefVertices == [idx \in SolidVertexIndices |-> <<2 * VertexColumn(idx), 2 * VertexRow(idx)>>]

\* cell->vertex_index(v), v = 0..3, for the cells in the order of the loop.
SolidCells ==
  [k \in 1..SolidNx |-> <<k, k + 1, k + SolidNx + 1, k + SolidNx + 2>>]

\* The vertex indices in the order the two nested loops of move_solid_mesh
\* come to them.
CellVertexVisits == [n \in 1..(4 * SolidNx) |-> SolidCells[((n - 1) \div 4) + 1][((n - 1) % 4) + 1]]

\* The displacement fields a solid step may leave: none, a translation, a
\* stretch along x, a shear with a lift.
DisplacementFields ==
  { [idx \in SolidVertexIndices |-> <<0, 0>>],
    [idx \in SolidVertexIndices |-> <<1, 0>>],
    [idx \in SolidVertexIndices |-> <<VertexColumn(idx), 0>>],
    [idx \in SolidVertexIndices |-> <<VertexRow(idx), 1>>] }

VertexUntouchedAlways(vertex_touched, idx) == TRUE

\* !vertex_touched[cell->vertex_index(v)]
VertexUntouched(vertex_touched, idx) == idx \notin vertex_touched

\* The loops of move_solid_mesh from visit n on.
RECURSIVE MoveLoop(_, _, _, _, _)
MoveLoop(n, verts, vertex_touched, localized_displacement, move_forward) ==
  IF n > Len(CellVertexVisits)
    THEN verts
    ELSE
      LET idx == CellVertexVisits[n]
          d == localized_displacement[idx]
      IN  IF VertexUntouched(vertex_touched, idx)
            THEN MoveLoop(n + 1,
                   [verts EXCEPT ![idx] =
                      IF move_forward THEN <<@[1] + d[1], @[2] + d[2]>>
                                      ELSE <<@[1] - d[1], @[2] - d[2]>>],
                   vertex_touched \cup {idx}, localized_displacement, move_forward)
            ELSE MoveLoop(n + 1, verts, vertex_touched, localized_displacement,
                          move_forward)

move_forward_only(verts, displacement, move_forward) ==
  IF move_forward
    THEN MoveLoop(1, verts, {}, displacement, TRUE)
    ELSE verts

move_solid_mesh(verts, displacement, move_forward) ==
  MoveLoop(1, verts, {}, displacement, move_forward)

\* triangulation.get_vertices(), in index order.
VertexList(verts) == [i \in 1..(2 * (SolidNx + 1)) |-> verts[i]]

\* The variables of the solid mesh while a specification does not use them.
ParkMesh ==
  /\ vertex = <<>>
  /\ current_displacement = <<>>
  /\ mesh_depth = 0
  /\ solid_box = <<>>

ParkMotion == mo_pc = "off"

\* The solid solver's variables while SpecSolid does not run.
ParkSolid ==
  /\ so_pc = "off"
  /\ so_kind = "hyper"
  /\ so_fresh = FALSE
  /\ solid_max_iterations = 0
  /\ newton_iteration = 0
  /\ unconverged = FALSE
  /\ so_begun = 0
  /\ so_finalized = 0
  /\ previous_displacement = 0
  /\ previous_velocity = 0
  /\ previous_acceleration = 0
  /\ so_displacement = 0
  /\ current_velocity = 0
  /\ current_acceleration = 0
  /\ so_simulation_type = "FSI"
  /\ so_timestep = 0
  /\ so_refinement_interval = 0
  /\ so_save_interval = 0
  /\ so_refinements = {}
  /\ so_checkpoints = {}

\* The variables of run() while Spec does not run.
ParkRun ==
  /\ pc = "off"
  /\ success_load = FALSE
  /\ first_step = FALSE
  /\ time_step = 0
  /\ solid_timestep = 0
  /\ fluid_timestep = 0
  /\ solid_current = 0
  /\ fluid_current = 0
  /\ end_time = 0
  /\ refinement_interval = 0
  /\ save_interval = 0
  /\ iter_ops = <<>>
  /\ iter_first = FALSE
  /\ fluid_generation = 0
  /\ cell_hints = <<>>
  /\ solid_saved = {}
  /\ fluid_saved = {}
  /\ nonzero_constraints = <<>>
  /\ zero_constraints = <<>>

----------------------------------------------------------------------------
(* SpecPoint                                                                *)

PtCoords == (0 - PtMargin)..(4 + PtMargin)

PtSolidVertices == IF pt_dim = 2 THEN Polygons[pt_solid] ELSE HexVertices(Hexes[pt_solid])

PtSegments == IF pt_dim = 2 THEN Arrange(BoundaryOf(Polygons[pt_solid]), pt_order) ELSE <<>>

PtCells == IF pt_dim = 3 THEN Hexes[pt_solid] ELSE <<>>

PtUpToDate == pt_box = SolidBoxOf(PtSolidVertices, pt_dim)

\* The variables of SpecPoint while another specification runs.
ParkPoint ==
  /\ pt_pc = "off"
  /\ pt_dim = 2
  /\ pt_solid = 1
  /\ pt_order = 0
  /\ pt_box = ZeroBox(2)
  /\ pt_point = <<0, 0>>
  /\ pt_result = [result |-> FALSE, examined |-> 0]

\* The variables of SpecBC while another specification runs.
ParkBC ==
  /\ bc_pc = "off"
  /\ bc_degree = 1
  /\ bc_solid = 1
  /\ bc_owned = {}
  /\ bc_motion = 0
  /\ bc_present = 0
  /\ bc_lost = <<>>
  /\ bc_moved = FALSE
  /\ bc_nonzero = <<>>
  /\ bc_zero = <<>>
  /\ bc_inner = <<>>
  /\ bc_prop = <<>>
  /\ bc_peer = <<>>

\* The variables of SpecTraction while it does not run.
ParkTraction ==
  /\ simulation_type = "FSI"
  /\ solid_neumann_bc_type = "Traction"
  /\ tr_owner = <<>>
  /\ tr_holder = 0
  /\ tr_pc = <<>>
  /\ tr_step = <<>>
  /\ tr_next = <<>>
  /\ tr_posted = <<>>
  /\ tr_reductions = <<>>
  /\ fsi_traction = <<>>
  /\ tr_load = <<>>

\* The variables of SpecRefine while it does not run.
ParkRefine ==
  /\ rf_mesh = {}
  /\ rf_before = {}
  /\ rf_solid = {}
  /\ rf_marked = <<>>
  /\ rf_flags = <<>>

ParkNewton ==
  /\ tol_d = <<1, 1>>
  /\ tol_f = <<1, 1>>
  /\ nw_max_iterations = 0
  /\ nw_errors = <<>>
  /\ nw_solver = <<>>

ParkVolume ==
  /\ vol_owner = <<>>
  /\ vol_cell = <<>>
  /\ vol_debug = FALSE
  /\ vol_pc = <<>>
  /\ volume = <<>>
  /\ vol_reduced = <<>>
  /\ vol_result = <<>>

ParkColl == ParkTraction /\ ParkRefine /\ ParkNewton /\ ParkVolume

ParkCore ==
  /\ ParkPoint
  /\ ParkBC
  /\ ParkMesh
  /\ ParkMotion
  /\ ParkRun
  /\ ParkSolid

InitPoint ==
  /\ ParkBC
  /\ ParkMesh
  /\ ParkMotion
  /\ ParkRun
  /\ ParkSolid
  /\ ParkColl
  /\ pt_pc = "input"
  /\ pt_dim \in {2, 3}
  /\ pt_solid \in IF pt_dim = 2 THEN 1..Len(Polygons) ELSE 1..Len(Hexes)
  /\ pt_order \in IF pt_dim = 2 THEN OrderVariants ELSE {0}
  /\ pt_box \in {SolidBoxOf(PtSolidVertices, pt_dim), ZeroBox(pt_dim)}
  /\ pt_point \in IF pt_dim = 2
                    THEN {<<x, y>> : x \in PtCoords, y \in PtCoords}
                    ELSE {<<x, y, z>> : x \in PtCoords, y \in {0, 1, 3}, z \in {-1, 1}}
  /\ pt_result = [result |-> FALSE, examined |-> 0]

\* One call of point_in_solid(df, point).
PointInSolid ==
  /\ pt_pc = "input"
  /\ pt_result' = point_in_solid(pt_dim, PtCells, PtSegments, pt_box, pt_point)
  /\ pt_pc' = "done"
  /\ UNCHANGED <<pt_dim, pt_solid, pt_order, pt_box, pt_point>>
  /\ UNCHANGED <<varsBC, varsMesh, varsMo, varsRun, varsSo, varsColl>>

NextPoint == PointInSolid

SpecPoint == InitPoint /\ [][NextPoint]_vars


----------------------------------------------------------------------------
(* Reference geometry, used only to state the claims about point_in_solid:  *)
(* exact membership in a simple closed polygon.                             *)

OnSegment(p1, p2, point) ==
  /\ (p2[1] - p1[1]) * (point[2] - p1[2]) = (p2[2] - p1[2]) * (point[1] - p1[1])
  /\ Min2(p1[1], p2[1]) <= point[1] /\ point[1] <= Max2(p1[1], p2[1])
  /\ Min2(p1[2], p2[2]) <= point[2] /\ point[2] <= Max2(p1[2], p2[2])

OnPolygonBoundary(poly, point) ==
  \E i \in 1..Len(poly) : OnSegment(poly[i], poly[(i % Len(poly)) + 1], point)

\* The side i of the polygon is crossed by the open horizontal ray that
\* leaves the point to the right (half-open rule on the ordinates).
RayCrossesSide(p1, p2, point) ==
  /\ (p1[2] > point[2]) # (p2[2] > point[2])
  /\ LET d == p2[2] - p1[2]
     IN  ((p1[1] - point[1]) * d + (point[2] - p1[2]) * (p2[1] - p1[1])) * Sign(d) > 0

CrossingParityOdd(poly, point) ==
  Cardinality({i \in 1..Len(poly) :
                 RayCrossesSide(poly[i], poly[(i % Len(poly)) + 1], point)}) % 2 = 1

StrictlyInside(poly, point) ==
  ~OnPolygonBoundary(poly, point) /\ CrossingParityOdd(poly, point)

StrictlyOutside(poly, point) ==
  ~OnPolygonBoundary(poly, point) /\ ~CrossingParityOdd(poly, point)

IsPolygonVertex(poly, point) == \E i \in 1..Len(poly) : poly[i] = point

OnHorizontalSide(poly, point) ==
  \E i \in 1..Len(poly) :
    LET p1 == poly[i]
        p2 == poly[(i % Len(poly)) + 1]
    IN  p1[2] = p2[2] /\ OnSegment(p1, p2, point)

PtDone2D == pt_pc = "done" /\ pt_dim = 2

PtPolygon == Polygons[pt_solid]

\* C4: with an up-to-date box, point_in_solid is true for every point
\* strictly inside the boundary polygon and false for every point strictly
\* outside it, for every simple polygon of the catalogue (convex or not).
C4_InsideOutsideExact ==
  (PtDone2D /\ PtUpToDate) =>
     /\ StrictlyInside(PtPolygon, pt_point) => pt_result.result
     /\ StrictlyOutside(PtPolygon, pt_point) => ~pt_result.result

\* C5: with an up-to-date box, point_in_solid is true for every point on a
\* boundary vertex or on a horizontal boundary side, whatever the order and
\* the orientation of the faces.
C5_VertexAndHorizontalInside ==
  (PtDone2D /\ PtUpToDate) =>
     ((IsPolygonVertex(PtPolygon, pt_point) \/ OnHorizontalSide(PtPolygon, pt_point))
        => pt_result.result)

\* C6: a point with a coordinate strictly outside the cached solid_box gets
\* false, and no boundary face (2-D) and no solid cell (3-D) is examined.
C6_OutsideBoxRejected ==
  (pt_pc = "done" /\ ~InSolidBox(pt_dim, pt_box, pt_point)) =>
     (pt_result.result = FALSE /\ pt_result.examined = 0)

\* A point of the solid's own row or column that the up-to-date box does not
\* hold: the call has returned, and no boundary face was looked at.
C6_Witness ==
  /\ pt_pc = "done"
  /\ pt_dim = 2
  /\ PtUpToDate
  /\ ~InSolidBox(pt_dim, pt_box, pt_point)
  /\ pt_point[2] = 2
  /\ pt_result.examined = 0


----------------------------------------------------------------------------
(* The fluid mesh of SpecBC: BCNx x BCNy square cells of side 4, numbered   *)
(* row by row; a velocity node every 2 units (degree 2) or 4 units (degree  *)
(* 1), a pressure node at every cell corner, a 2 x 2 quadrature per cell.   *)

BCNx == 3

BCNy == 2

BCCells == [k \in 1..(BCNx * BCNy) |-> <<(k - 1) % BCNx, (k - 1) \div BCNx>>]

\* The deformed solids, as boundary polygons (one solid cell each).
BCSolids ==
  << << <<2,2>>, <<6,2>>, <<6,6>>, <<2,6>> >>,
     << <<1,1>>, <<7,1>>, <<7,7>>, <<1,7>> >>,
     << <<5,3>>, <<13,3>>, <<13,9>>, <<5,9>> >>,
     << <<-1,1>>, <<3,1>>, <<3,7>>, <<-1,7>> >> >>

\* The columns one process owns, for the partitions of the mesh considered.
BCOwnedColumns == {0..(BCNx - 1), {0}, {1}, {BCNx - 1}, {0, 1}}

\* cell->is_locally_owned(), a ghost cell (a neighbour of an owned cell), or
\* cell->is_artificial().
KindOwnedOrSkipped(owned, cell) ==
  IF cell[1] \in owned THEN "owned" ELSE "artificial"

\* The same, on the process that owns the columns `owned'.
KindOfCell(owned, cell) ==
  IF cell[1] \in owned THEN "owned"
  ELSE IF (cell[1] - 1) \in owned \/ (cell[1] + 1) \in owned THEN "ghost"
  ELSE "artificial"

CellKind(cell) == KindOfCell(bc_owned, cell)

\* fluid_solver.fe: the local dofs of a cell, [group, u, comp]; group 0 is
\* the velocity, group 1 the pressure; u is the unit support point in half
\* units (0, 1, 2 for 0, 0.5, 1).
VelocityUnitPoints(degree) ==
  IF degree = 1
    THEN << <<0,0>>, <<2,0>>, <<0,2>>, <<2,2>> >>
    ELSE << <<0,0>>, <<2,0>>, <<0,2>>, <<2,2>>,
            <<0,1>>, <<2,1>>, <<1,0>>, <<1,2>>, <<1,1>> >>

PressureUnitPoints == << <<0,0>>, <<2,0>>, <<0,2>>, <<2,2>> >>

LocalDofs(degree) ==
  LET vu == VelocityUnitPoints(degree)
  IN  [i \in 1..(2 * Len(vu)) |->
         [group |-> 0, u |-> vu[(i + 1) \div 2], comp |-> 2 - (i % 2)]]
      \o [i \in 1..Len(PressureUnitPoints) |->
            [group |-> 1, u |-> PressureUnitPoints[i], comp |-> 3]]

\* dummy_fe_values.get_quadrature_points(): the support point of a local dof.
SupportPoint(cell, ld) == <<4 * cell[1] + 2 * ld.u[1], 4 * cell[2] + 2 * ld.u[2]>>

\* f_cell->get_dof_indices: dofs at the same node and component are shared.
GlobalDof(cell, ld) ==
  [group |-> ld.group, at |-> SupportPoint(cell, ld), comp |-> ld.comp]

\* fe_values.quadrature_point(q), q = 1..4.
NQPoints == 4

QuadraturePoint(cell, q) ==
  <<4 * cell[1] + (IF q % 2 = 1 THEN 1 ELSE 3), 4 * cell[2] + (IF q <= 2 THEN 1 ELSE 3)>>

\* The fields the call reads.  The solid fields are given by their value at
\* a point of the deformed solid, the fluid ones by dof or by point.
SolidVelocityAt(point) ==
  IF bc_motion = 0 THEN <<0, 0>> ELSE <<point[1] + 1, 2 - point[2]>>

SolidAccelerationAt(point) ==
  IF bc_motion = 0 THEN <<0, 0>> ELSE <<1, point[1]>>

\* solid_solver.stress[i][j] at a point, as <<xx, xy, yy>>.
SolidStressAt(point) ==
  IF bc_motion = 0 THEN <<0, 0, 0>> ELSE <<point[1], 1, point[2]>>

present_solution(dof) ==
  IF bc_present = 0 THEN 0 ELSE dof.at[1] - dof.at[2] + dof.comp

FluidPressureAt(point) == IF bc_present = 0 THEN 0 ELSE point[1] + point[2]

\* sym_grad_v[q], as <<xx, xy, yy>>.
FluidSymGradAt(point) == IF bc_present = 0 THEN <<0, 0, 0>> ELSE <<1, point[2], -1>>

viscosity == 1

solid_rho == 3

fluid_rho == 1

gravity == <<0, -2>>

BCSegments == BoundaryOf(BCSolids[bc_solid])

BCBox == SolidBoxOf(BCSolids[bc_solid], 2)

BCPointInSolid(point) == point_in_solid(2, <<>>, BCSegments, BCBox, point).result

\* interpolator.found_cell(): the locator has found a solid cell that holds
\* the point.
found_cell(point) == point # bc_lost

\* AffineConstraints::add_line followed by set_inhomogeneity.
AddLine(lines, dof, value) ==
  [d \in (DOMAIN lines) \cup {dof} |-> IF d = dof THEN value ELSE lines[d]]

MergeRightWins(left, other) ==
  [d \in (DOMAIN left) \cup (DOMAIN other) |->
     IF d \in DOMAIN other THEN other[d] ELSE left[d]]

\* AffineConstraints::merge(other, left_object_wins).
MergeLeftWins(left, other) ==
  [d \in (DOMAIN left) \cup (DOMAIN other) |->
     IF d \in DOMAIN left THEN left[d] ELSE other[d]]

NoLines == [d \in {} |-> 0]

\* "skip the in-cell support point": no unit coordinate is (nearly) zero.
InCellSupportPoint(u) == \A d \in 1..2 : ~(u[d] = 0)

InCellNever(u) == FALSE

SkippedAsInCell(u) == InCellSupportPoint(u)

AlreadyTouchedNever(touched, dof) == FALSE

AlreadyTouched(touched, dof) == dof \in touched

IncrementAbsolute(velocity, present) == velocity

\* The value given to set_inhomogeneity: the velocity delta.
Increment(velocity, present) == velocity - present

FoundCellUnchecked(found) == TRUE

\* AssertThrow(interpolator.found_cell(), ...): passes when the cell is found.
FoundCellAsserted(found) == found

\* One pass of the loop over the support points, for local dof ld of cell.
SupportPointStep(cell, ld, st) ==
  LET dof == GlobalDof(cell, ld)
      point == SupportPoint(cell, ld)
  IN  IF AlreadyTouched(st.touched, dof) THEN st
      ELSE IF ld.group = 1 THEN st
      ELSE IF SkippedAsInCell(ld.u) THEN st
      ELSE
        LET st1 == [st EXCEPT !.touched = @ \cup {dof}]
        IN  IF ~BCPointInSolid(point) THEN st1
            ELSE IF ~FoundCellAsserted(found_cell(point))
              THEN [st1 EXCEPT !.thrown = TRUE]
            ELSE [st1 EXCEPT
                    !.nonzero = AddLine(@, dof,
                                  Increment(SolidVelocityAt(point)[ld.comp],
                                            present_solution(dof))),
                    !.zero = IF dof \in DOMAIN @ THEN @ ELSE AddLine(@, dof, 0),
                    !.added = @ + 1]

RECURSIVE SupportPointLoop(_, _, _, _)
SupportPointLoop(cell, lds, i, st) ==
  IF i > Len(lds) \/ st.thrown
    THEN st
    ELSE SupportPointLoop(cell, lds, i + 1, SupportPointStep(cell, lds[i], st))

\* One pass of the loop over the quadrature points of a locally owned cell.
QuadraturePointStep(k, q, st) ==
  LET point == QuadraturePoint(BCCells[k], q)
      indicator == BCPointInSolid(point)
      cleared == [indicator |-> indicator, fsi_acceleration |-> <<0, 0>>,
                  fsi_stress |-> <<0, 0, 0>>]
  IN  IF indicator = FALSE
        THEN [st EXCEPT !.prop[<<k, q>>] = cleared]
        ELSE IF ~found_cell(point)
          \* VectorTools::point_value on the solid mesh throws
          THEN [st EXCEPT !.prop[<<k, q>>] = cleared, !.thrown = TRUE]
          ELSE
            LET solid_acc == SolidAccelerationAt(point)
                solid_sigma == SolidStressAt(point)
                p == FluidPressureAt(point)
                sym_grad_v == FluidSymGradAt(point)
                acc == IF cleared.indicator = FALSE
                         THEN [i \in 1..2 |->
                                 (solid_rho - fluid_rho) * (gravity[i] - solid_acc[i])]
                         ELSE cleared.fsi_acceleration
                stress == IF cleared.indicator = FALSE
                            THEN <<0 - p + 2 * viscosity * sym_grad_v[1] - solid_sigma[1],
                                   2 * viscosity * sym_grad_v[2] - solid_sigma[2],
                                   0 - p + 2 * viscosity * sym_grad_v[3] - solid_sigma[3]>>
                            ELSE cleared.fsi_stress
            IN  [st EXCEPT !.prop[<<k, q>>] =
                   [indicator |-> indicator, fsi_acceleration |-> acc,
                    fsi_stress |-> stress]]

RECURSIVE QuadraturePointLoop(_, _, _)
QuadraturePointLoop(k, q, st) ==
  IF q > NQPoints \/ st.thrown
    THEN st
    ELSE QuadraturePointLoop(k, q + 1, QuadraturePointStep(k, q, st))

\* The loop over the active fluid cells on the process that owns the
\* columns `owned' and meets the cells in the order `order', from the j-th
\* cell of that order on.
RECURSIVE CellLoop(_, _, _, _)
CellLoop(owned, order, j, st) ==
  IF j > Len(order) \/ st.thrown
    THEN st
    ELSE
      LET k == order[j] IN
      IF KindOfCell(owned, BCCells[k]) = "artificial"
        THEN CellLoop(owned, order, j + 1, st)
        ELSE
          LET st1 == SupportPointLoop(BCCells[k], LocalDofs(bc_degree), 1, st)
          IN  IF st1.thrown \/ KindOfCell(owned, BCCells[k]) # "owned"
                THEN CellLoop(owned, order, j + 1, st1)
                ELSE CellLoop(owned, order, j + 1, QuadraturePointLoop(k, 1, st1))

\* begin_active() .. end() on this process.
MeshOrder == [k \in 1..Len(BCCells) |-> k]

\* The loop over the active fluid cells, from cell k on.
FluidCellLoop(k, st) == CellLoop(bc_owned, MeshOrder, k, st)

\* The locals of find_fluid_bc at its start.
BCStart ==
  [touched |-> {}, nonzero |-> NoLines, zero |-> NoLines, added |-> 0,
   prop |-> bc_prop, thrown |-> FALSE]

----------------------------------------------------------------------------
(* SpecBC                                                                   *)

\* The velocity dofs of the fluid mesh and the points they sit at.
BCStep == IF bc_degree = 1 THEN 4 ELSE 2

BCVelocityDofs ==
  {[group |-> 0, at |-> <<x * BCStep, y * BCStep>>, comp |-> c] :
     x \in 0..((4 * BCNx) \div BCStep), y \in 0..((4 * BCNy) \div BCStep), c \in 1..2}

\* fluid_solver.make_constraints: the velocity is prescribed on the left
\* boundary of the fluid domain (an inflow of 1 along x).
PhysicalNonzero ==
  [d \in {e \in BCVelocityDofs : e.at[1] = 0} |-> IF d.comp = 1 THEN 1 ELSE 0]

PhysicalZero == [d \in DOMAIN PhysicalNonzero |-> 0]

\* What an earlier call may have left in cell_property.
StoredRecords ==
  {[indicator |-> FALSE, fsi_acceleration |-> <<0, 0>>, fsi_stress |-> <<0, 0, 0>>],
   [indicator |-> TRUE, fsi_acceleration |-> <<7, 7>>, fsi_stress |-> <<7, 7, 7>>]}

OwnedCellIndices == {k \in 1..Len(BCCells) : BCCells[k][1] \in bc_owned}

\* The peer process owns the columns this process does not own.
PeerOwned == (0..(BCNx - 1)) \ bc_owned

PeerOwnedCellIndices == {k \in 1..Len(BCCells) : BCCells[k][1] \in PeerOwned}

\* The orders in which the peer may meet the active cells.
PeerOrders ==
  {MeshOrder, [j \in 1..Len(BCCells) |-> Len(BCCells) + 1 - j]}

\* The locals of find_fluid_bc at its start on the peer.
PeerStart ==
  [touched |-> {}, nonzero |-> NoLines, zero |-> NoLines, added |-> 0,
   prop |-> [c \in PeerOwnedCellIndices \X (1..NQPoints) |->
               [indicator |-> FALSE, fsi_acceleration |-> <<0, 0>>,
                fsi_stress |-> <<0, 0, 0>>]],
   thrown |-> FALSE]

InitBC ==
  /\ ParkPoint
  /\ ParkMesh
  /\ ParkMotion
  /\ ParkRun
  /\ ParkSolid
  /\ ParkColl
  /\ bc_pc = "ready"
  /\ bc_degree \in {1, 2}
  /\ bc_solid \in 1..Len(BCSolids)
  /\ bc_owned \in BCOwnedColumns
  /\ bc_motion \in {0, 1}
  /\ bc_present \in {0, 1}
  /\ bc_lost \in {<<>>, <<4, 4>>, <<5, 5>>}
  /\ bc_moved = FALSE
  /\ bc_nonzero = PhysicalNonzero
  /\ bc_zero = PhysicalZero
  /\ \E r \in StoredRecords :
       bc_prop = [c \in OwnedCellIndices \X (1..NQPoints) |-> r]
  /\ bc_inner = BCStart
  /\ bc_peer = [pc |-> "ready", order |-> MeshOrder, inner |-> PeerStart]

\* find_fluid_bc up to its normal return.
FindFluidBC ==
  /\ bc_pc = "ready"
  /\ \E st \in {FluidCellLoop(1, BCStart)} :
         /\ ~st.thrown
         /\ bc_inner' = st
         /\ bc_prop' = st.prop
         /\ bc_nonzero' = MergeLeftWins(bc_nonzero, st.nonzero)
         /\ bc_zero' = MergeLeftWins(bc_zero, st.zero)
  /\ bc_moved' = FALSE
  /\ bc_pc' = "returned"
  /\ UNCHANGED <<bc_degree, bc_solid, bc_owned, bc_motion, bc_present, bc_lost,
                 bc_peer>>
  /\ UNCHANGED <<varsPt, varsMesh, varsMo, varsRun, varsSo, varsColl>>

\* find_fluid_bc left by the exception of AssertThrow (or of point_value).
FindFluidBCThrows ==
  /\ bc_pc = "ready"
  /\ \E st \in {FluidCellLoop(1, BCStart)} :
         /\ st.thrown
         /\ bc_inner' = st
         /\ bc_prop' = st.prop
  /\ bc_moved' = TRUE
  /\ bc_pc' = "thrown"
  /\ UNCHANGED <<bc_degree, bc_solid, bc_owned, bc_motion, bc_present, bc_lost,
                 bc_nonzero, bc_zero, bc_peer>>
  /\ UNCHANGED <<varsPt, varsMesh, varsMo, varsRun, varsSo, varsColl>>

\* find_fluid_bc on the peer process, up to its return or its exception; the
\* peer meets the cells of its own triangulation in an order of its own.
PeerFindFluidBC ==
  /\ bc_pc # "off"
  /\ bc_peer.pc = "ready"
  /\ \E order \in PeerOrders :
       \E st \in {CellLoop(PeerOwned, order, 1, PeerStart)} :
         bc_peer' = [pc |-> IF st.thrown THEN "thrown" ELSE "returned",
                     order |-> order, inner |-> st]
  /\ UNCHANGED <<bc_pc, bc_degree, bc_solid, bc_owned, bc_motion, bc_present,
                 bc_lost, bc_moved, bc_nonzero, bc_zero, bc_inner, bc_prop>>
  /\ UNCHANGED <<varsPt, varsMesh, varsMo, varsRun, varsSo, varsColl>>

NextBC == FindFluidBC \/ FindFluidBCThrows \/ PeerFindFluidBC

SpecBC == InitBC /\ [][NextBC]_vars


----------------------------------------------------------------------------
(* Claims about find_fluid_bc (SpecBC)                                      *)

NonArtificialCellIndices ==
  {k \in 1..Len(BCCells) : CellKind(BCCells[k]) # "artificial"}

\* The dofs of the cells the loop works on.
DofsOfVisitedCells ==
  {GlobalDof(BCCells[k], LocalDofs(bc_degree)[i]) :
     k \in NonArtificialCellIndices, i \in 1..Len(LocalDofs(bc_degree))}

\* The support point is a corner of the fluid cells.
IsCellCorner(point) == point[1] % 4 = 0 /\ point[2] % 4 = 0

\* Some visited cell holds the dof at a unit support point with a zero
\* reference coordinate.
HasZeroUnitCoordinate(dof) ==
  \E k \in NonArtificialCellIndices :
    \E i \in 1..Len(LocalDofs(bc_degree)) :
      LET ld == LocalDofs(bc_degree)[i]
      IN  GlobalDof(BCCells[k], ld) = dof /\ (ld.u[1] = 0 \/ ld.u[2] = 0)

\* C7: after find_fluid_bc every velocity dof of a non-artificial cell whose
\* support point is inside the solid has a coupling line, and the line's
\* increment brings the dof to the solid velocity at that point.
C7_InsideDofsAllConstrained ==
  bc_pc = "returned" =>
    \A d \in DofsOfVisitedCells :
      (d.group = 0 /\ BCPointInSolid(d.at)) =>
         /\ d \in DOMAIN bc_inner.nonzero
         /\ bc_inner.nonzero[d] + present_solution(d) = SolidVelocityAt(d.at)[d.comp]

\* C8 as stated: a coupling line is only given to a velocity dof whose
\* support point is a cell corner and inside the solid.
C8_OnlyCornersConstrained ==
  bc_pc # "ready" =>
    \A d \in DOMAIN bc_inner.nonzero :
      d.group = 0 /\ IsCellCorner(d.at) /\ BCPointInSolid(d.at)

\* C8 as amended: a coupling line is only given to a velocity dof that sits,
\* in some visited cell, at a unit support point with a zero reference
\* coordinate (a corner or a mid-side node of the cell's lower or left face)
\* and whose support point is inside the solid; and add_line is called once
\* per line.
C8_OnlyZeroCoordinateNodesConstrained ==
  bc_pc # "ready" =>
    /\ \A d \in DOMAIN bc_inner.nonzero :
         d.group = 0 /\ HasZeroUnitCoordinate(d) /\ BCPointInSolid(d.at)
    /\ bc_inner.added = Cardinality(DOMAIN bc_inner.nonzero)

\* A mid-side node (not a cell corner) has received a coupling line.
C8_Witness ==
  /\ bc_pc = "returned"
  /\ \E d \in DOMAIN bc_inner.nonzero : ~IsCellCorner(d.at)

\* C9: the two coupling sets hold the same lines, each added once; the
\* nonzero set holds the solid velocity component at the support point minus
\* present_solution at the dof, the zero set holds 0.
C9_IncrementAndZero ==
  bc_pc # "ready" =>
    /\ DOMAIN bc_inner.nonzero = DOMAIN bc_inner.zero
    /\ bc_inner.added = Cardinality(DOMAIN bc_inner.nonzero)
    /\ \A d \in DOMAIN bc_inner.nonzero :
         /\ bc_inner.nonzero[d] = SolidVelocityAt(d.at)[d.comp] - present_solution(d)
         /\ bc_inner.zero[d] = 0

\* A call has returned with a line whose increment differs from the solid
\* velocity itself (the fluid is not at rest there).
C9_Witness ==
  /\ bc_pc = "returned"
  /\ \E d \in DOMAIN bc_inner.nonzero :
       /\ present_solution(d) # 0
       /\ bc_inner.nonzero[d] # SolidVelocityAt(d.at)[d.comp]
       /\ bc_inner.zero[d] = 0

\* C10: after find_fluid_bc, at every quadrature point of every locally
\* owned cell the indicator is point_in_solid of the point; inside the solid
\* fsi_acceleration is (solid_rho - fluid_rho) * (gravity - solid
\* acceleration) and fsi_stress is the fluid stress minus the solid stress;
\* outside both are zero.
C10_JumpsStored ==
  bc_pc = "returned" =>
    \A k \in OwnedCellIndices : \A q \in 1..NQPoints :
      LET point == QuadraturePoint(BCCells[k], q)
          r == bc_prop[<<k, q>>]
          a == SolidAccelerationAt(point)
          s == SolidStressAt(point)
          g == FluidSymGradAt(point)
          p == FluidPressureAt(point)
      IN  /\ r.indicator = BCPointInSolid(point)
          /\ BCPointInSolid(point) =>
               /\ r.fsi_acceleration =
                    <<(solid_rho - fluid_rho) * (gravity[1] - a[1]),
                      (solid_rho - fluid_rho) * (gravity[2] - a[2])>>
               /\ r.fsi_stress =
                    <<0 - p + 2 * viscosity * g[1] - s[1],
                      2 * viscosity * g[2] - s[2],
                      0 - p + 2 * viscosity * g[3] - s[3]>>
          /\ ~BCPointInSolid(point) =>
               /\ r.fsi_acceleration = <<0, 0>>
               /\ r.fsi_stress = <<0, 0, 0>>


----------------------------------------------------------------------------
(* SpecMotion: the operations of FSI that displace the solid mesh, called   *)
(* one after another on a solid whose displacement the solid solver changes *)
(* in between.  Each operation opens with move_solid_mesh(true) and, on its *)
(* normal path, ends with move_solid_mesh(false).                           *)

\* The velocity dofs that find_fluid_bc examines at the point the locator
\* cannot find: dofs of non-artificial cells whose support point there is
\* not skipped as in-cell.
LostDofs ==
  LET lds == LocalDofs(bc_degree) IN
    UNION {{GlobalDof(BCCells[k], lds[i]) :
              i \in {n \in 1..Len(lds) :
                       /\ lds[n].group = 0
                       /\ ~InCellSupportPoint(lds[n].u)
                       /\ SupportPoint(BCCells[k], lds[n]) = bc_lost}} :
           k \in NonArtificialCellIndices}

\* C18: when a support point that find_fluid_bc examines is inside the solid
\* and the locator finds no solid cell for it, find_fluid_bc does not return:
\* it is left by the exception, no line exists for the dofs at that point,
\* and the fluid solver's constraint sets are as make_constraints left them.
C18_LostPointIsFatal ==
  (bc_pc # "ready" /\ LostDofs # {} /\ BCPointInSolid(bc_lost)) =>
    /\ bc_pc = "thrown"
    /\ bc_inner.thrown
    /\ \A d \in LostDofs :
         /\ d \notin DOMAIN bc_inner.nonzero
         /\ d \notin DOMAIN bc_inner.zero
         /\ d \notin DOMAIN bc_nonzero
         /\ d \notin DOMAIN bc_zero
    /\ bc_nonzero = PhysicalNonzero
    /\ bc_zero = PhysicalZero

\* find_fluid_bc has thrown at a lost support point inside the solid after
\* it had examined other dofs.
C18_Witness ==
  /\ bc_pc = "thrown"
  /\ LostDofs # {}
  /\ BCPointInSolid(bc_lost)
  /\ bc_inner.touched \ LostDofs # {}

\* The velocity dofs that belong to a locally owned cell of this process and
\* to a locally owned cell of the peer.
InterfaceDofs ==
  LET lds == LocalDofs(bc_degree)
      DofsOf(cells) == {GlobalDof(BCCells[k], lds[i]) : k \in cells, i \in 1..Len(lds)}
  IN  {d \in DofsOf(OwnedCellIndices) \cap DofsOf(PeerOwnedCellIndices) : d.group = 0}

\* The cells in the owned columns or next to one: the owned and ghost cells.
OwnedAndGhostCells(owned) ==
  {k \in 1..Len(BCCells) : \E c \in owned : BCCells[k][1] \in (c - 1)..(c + 1)}

\* The velocity dofs that a cell of the set holds at a support point the loop
\* does not skip.
ExaminedDofs(cells) ==
  LET lds == LocalDofs(bc_degree) IN
    UNION {{GlobalDof(BCCells[k], lds[i]) :
              i \in {n \in 1..Len(lds) :
                       lds[n].group = 0 /\ ~InCellSupportPoint(lds[n].u)}} :
           k \in cells}

\* The first cell of the order from which the dof is examined.
FirstToucher(owned, order, dof) ==
  LET js == {j \in 1..Len(order) :
               /\ order[j] \in OwnedAndGhostCells(owned)
               /\ dof \in ExaminedDofs({order[j]})}
  IN  IF js = {} THEN 0 ELSE order[CHOOSE j \in js : \A i \in js : j <= i]

\* C28: when find_fluid_bc has returned on both processes, every velocity
\* dof shared by owned cells of the two has a coupling line on both or on
\* neither, with the same increment (and the same zero line), whatever the
\* order in which the peer met its cells; and each process has examined the
\* dofs of all its owned and ghost cells, only artificial cells being left
\* out.
C28_InterfaceDofsAgree ==
  (bc_pc = "returned" /\ bc_peer.pc = "returned") =>
    /\ \A d \in InterfaceDofs :
         /\ d \in DOMAIN bc_inner.nonzero <=> d \in DOMAIN bc_peer.inner.nonzero
         /\ d \in DOMAIN bc_inner.zero <=> d \in DOMAIN bc_peer.inner.zero
         /\ d \in DOMAIN bc_inner.nonzero =>
              /\ bc_inner.nonzero[d] = bc_peer.inner.nonzero[d]
              /\ bc_inner.zero[d] = bc_peer.inner.zero[d]
    /\ bc_inner.touched = ExaminedDofs(OwnedAndGhostCells(bc_owned))
    /\ bc_peer.inner.touched = ExaminedDofs(OwnedAndGhostCells(PeerOwned))

\* Both processes have returned with a line, of a nonzero increment, for an
\* interface dof that each of them first examined from a different cell.
C28_Witness ==
  /\ bc_pc = "returned"
  /\ bc_peer.pc = "returned"
  /\ \E d \in InterfaceDofs \cap (DOMAIN bc_inner.nonzero) :
       /\ d \in DOMAIN bc_peer.inner.nonzero
       /\ bc_inner.nonzero[d] # 0
       /\ present_solution(d) # 0
       /\ FirstToucher(bc_owned, MeshOrder, d) # FirstToucher(PeerOwned, bc_peer.order, d)

\* Some fluid dof carries a line of make_constraints and a different line
\* of the coupling.
ConflictingLine ==
  \E d \in (DOMAIN PhysicalNonzero) \cap (DOMAIN bc_inner.nonzero) :
    bc_inner.nonzero[d] # PhysicalNonzero[d]

\* C11: after the merge every dof that make_constraints had constrained
\* keeps its line and inhomogeneity in nonzero_constraints and in
\* zero_constraints; the lines added are those of the coupling on dofs that
\* were not constrained, with the coupling's inhomogeneity.
C11_PhysicalLinesKept ==
  bc_pc = "returned" =>
    /\ \A d \in DOMAIN PhysicalNonzero :
         /\ d \in DOMAIN bc_nonzero /\ bc_nonzero[d] = PhysicalNonzero[d]
         /\ d \in DOMAIN bc_zero /\ bc_zero[d] = PhysicalZero[d]
    /\ DOMAIN bc_nonzero = (DOMAIN PhysicalNonzero) \cup (DOMAIN bc_inner.nonzero)
    /\ DOMAIN bc_zero = (DOMAIN PhysicalZero) \cup (DOMAIN bc_inner.zero)
    /\ \A d \in (DOMAIN bc_inner.nonzero) \ (DOMAIN PhysicalNonzero) :
         bc_nonzero[d] = bc_inner.nonzero[d] /\ bc_zero[d] = bc_inner.zero[d]

\* The merge has met a dof of the physical boundary that the coupling
\* constrains to another value, and has added lines elsewhere.
C11_Witness ==
  /\ bc_pc = "returned"
  /\ ConflictingLine
  /\ (DOMAIN bc_inner.nonzero) \ (DOMAIN PhysicalNonzero) # {}


MotionScopes ==
  {"update_solid_box", "find_fluid_bc", "find_solid_bc", "refine_mesh",
   "update_indicator", "update_solid_displacement"}

\* The largest displacement component update_solid_displacement is started
\* with.
MaxDisp == 2

Abs(n) == IF n < 0 THEN 0 - n ELSE n

DisplacementWithin(disp, m) ==
  \A idx \in DOMAIN disp : Abs(disp[idx][1]) <= m /\ Abs(disp[idx][2]) <= m

\* solid_solver.constraints.is_constrained(cell->vertex_index(v)).
SolidConstrained == {1}

\* time.get_delta_t().
delta_t == 1

\* The fluid velocities VectorTools::point_value may read at a solid vertex:
\* a fluid at rest, or a uniform flow along x.
FluidVelocities == {<<0, 0>>, <<1, 0>>}

\* The loops of update_solid_displacement from visit n on.
RECURSIVE DisplacementLoop(_, _, _, _)
DisplacementLoop(n, vertex_touched, localized_solid_displacement, fluid_velocity) ==
  IF n > Len(CellVertexVisits)
    THEN localized_solid_displacement
    ELSE
      LET idx == CellVertexVisits[n]
      IN  IF idx \notin vertex_touched /\ idx \notin SolidConstrained
            THEN DisplacementLoop(n + 1, vertex_touched \cup {idx},
                   [localized_solid_displacement EXCEPT ![idx] =
                      <<@[1] + fluid_velocity[1] * delta_t,
                        @[2] + fluid_velocity[2] * delta_t>>],
                   fluid_velocity)
            ELSE DisplacementLoop(n + 1, vertex_touched,
                                  localized_solid_displacement, fluid_velocity)

MeshAfterThrowRestored(verts, displacement) ==
  move_solid_mesh(verts, displacement, FALSE)

\* The exception of AssertThrow leaves find_fluid_bc at once: the
\* move_solid_mesh(false) at the end of the function is not reached.
MeshAfterThrow(verts, displacement) == verts

InitMotion ==
  /\ ParkPoint
  /\ ParkBC
  /\ ParkRun
  /\ ParkSolid
  /\ ParkColl
  /\ mo_pc = "idle"
  /\ vertex = RefVertices
  /\ current_displacement \in DisplacementFields
  /\ mesh_depth = 0
  /\ solid_box = ZeroBox(2)

\* move_solid_mesh(true), the first statement of every operation.
MotionBegin(op) ==
  /\ mo_pc = "idle"
  /\ op = "update_solid_displacement" => DisplacementWithin(current_displacement, MaxDisp)
  /\ vertex' = move_solid_mesh(vertex, current_displacement, TRUE)
  /\ mesh_depth' = mesh_depth + 1
  /\ mo_pc' = op
  /\ UNCHANGED <<current_displacement, solid_box>>
  /\ UNCHANGED <<varsPt, varsBC, varsRun, varsSo, varsColl>>

\* The rest of update_solid_box.
UpdateSolidBoxEnd ==
  /\ mo_pc = "update_solid_box"
  /\ solid_box' = SolidBoxOf(VertexList(vertex), 2)
  /\ vertex' = move_solid_mesh(vertex, current_displacement, FALSE)
  /\ mesh_depth' = mesh_depth - 1
  /\ mo_pc' = "idle"
  /\ UNCHANGED <<current_displacement>>
  /\ UNCHANGED <<varsPt, varsBC, varsRun, varsSo, varsColl>>

\* The rest of find_fluid_bc, find_solid_bc, update_indicator, and of
\* refine_mesh up to its move_solid_mesh(false): none writes to the solid.
ScopeEnd(op) ==
  /\ mo_pc = op
  /\ op \in {"find_fluid_bc", "find_solid_bc", "refine_mesh", "update_indicator"}
  /\ vertex' = move_solid_mesh(vertex, current_displacement, FALSE)
  /\ mesh_depth' = mesh_depth - 1
  /\ mo_pc' = "idle"
  /\ UNCHANGED <<current_displacement, solid_box>>
  /\ UNCHANGED <<varsPt, varsBC, varsRun, varsSo, varsColl>>

\* find_fluid_bc: a support point classified inside the solid is not found
\* in the solid mesh, and AssertThrow throws.
FindFluidBCCannotFindPoint ==
  /\ mo_pc = "find_fluid_bc"
  /\ vertex' = MeshAfterThrow(vertex, current_displacement)
  /\ mo_pc' = "thrown"
  /\ UNCHANGED <<current_displacement, mesh_depth, solid_box>>
  /\ UNCHANGED <<varsPt, varsBC, varsRun, varsSo, varsColl>>

\* The rest of update_solid_displacement: the mesh is moved back with the
\* displacement it was moved forward with, then the displacement is replaced.
UpdateSolidDisplacementEnd ==
  /\ mo_pc = "update_solid_displacement"
  /\ \E fluid_velocity \in FluidVelocities :
       current_displacement' =
         DisplacementLoop(1, {}, current_displacement, fluid_velocity)
  /\ vertex' = move_solid_mesh(vertex, current_displacement, FALSE)
  /\ mesh_depth' = mesh_depth - 1
  /\ mo_pc' = "idle"
  /\ UNCHANGED <<solid_box>>
  /\ UNCHANGED <<varsPt, varsBC, varsRun, varsSo, varsColl>>

\* solid_solver.run_one_step between two coupling operations.
SolidMoves ==
  /\ mo_pc = "idle"
  /\ current_displacement' \in DisplacementFields
  /\ UNCHANGED <<vertex, mesh_depth, solid_box, mo_pc>>
  /\ UNCHANGED <<varsPt, varsBC, varsRun, varsSo, varsColl>>

NextMotion ==
  \/ \E op \in MotionScopes : MotionBegin(op)
  \/ UpdateSolidBoxEnd
  \/ \E op \in MotionScopes : ScopeEnd(op)
  \/ FindFluidBCCannotFindPoint
  \/ UpdateSolidDisplacementEnd
  \/ SolidMoves

SpecMotion == InitMotion /\ [][NextMotion]_vars

\* A vertex shared by two cells is displaced.
SharedVertexDisplaced ==
  \E idx \in SolidVertexIndices :
    /\ Cardinality({n \in 1..Len(CellVertexVisits) : CellVertexVisits[n] = idx}) > 1
    /\ current_displacement[idx] # <<0, 0>>

\* C2: while an operation's scope is open every solid vertex is at its
\* reference position plus its nodal displacement (added once, also at a
\* vertex that several cells share), and after the closing
\* move_solid_mesh(false) every vertex is back at its reference position.
C2_MovedOnceAndRestored ==
  /\ mo_pc \in MotionScopes =>
       /\ mesh_depth = 1
       /\ \A idx \in SolidVertexIndices :
            vertex[idx] = <<RefVertices[idx][1] + current_displacement[idx][1],
                            RefVertices[idx][2] + current_displacement[idx][2]>>
  /\ mo_pc = "idle" => (mesh_depth = 0 /\ vertex = RefVertices)

\* An operation has returned, its scope closed, on a solid whose shared
\* vertices are displaced, the box having been computed on the moved mesh.
C2_Witness ==
  /\ mo_pc = "idle"
  /\ SharedVertexDisplaced
  /\ solid_box # ZeroBox(2)
  /\ solid_box # SolidBoxOf(VertexList(RefVertices), 2)

\* C3 as stated: when find_fluid_bc is left by the exception, the solid mesh
\* is back in the reference configuration.
C3_RestoredOnFailure ==
  mo_pc = "thrown" => vertex = RefVertices

\* What the code does instead (C3): when find_fluid_bc is left by the
\* exception, the solid mesh stays in the displaced configuration, the
\* scope open.
C3_LeftDisplacedOnFailure ==
  mo_pc = "thrown" =>
    /\ mesh_depth = 1
    /\ \A idx \in SolidVertexIndices :
         vertex[idx] = <<RefVertices[idx][1] + current_displacement[idx][1],
                         RefVertices[idx][2] + current_displacement[idx][2]>>

C3_Witness ==
  /\ mo_pc = "thrown"
  /\ SharedVertexDisplaced
  /\ vertex # RefVertices


\* ------------------------------------------------------------------------
\* FSI::run: the coupling loop.  Times are counted in time steps of the
\* common step size; the solid mesh is the one of the section above.
\* ------------------------------------------------------------------------

MaxEnd == 3

\* Times are integers that count ticks: one tick is the tolerance of the
\* loop test, and a time step is TicksPerStep of them.
Tolerance == 1

TicksPerStep == 3

\* By how much the time stored in the fluid's checkpoint may be off the
\* multiple of the step size.
RestoreRoundings == {0, 1, 2}

AbsDiff(a, b) == IF a >= b THEN a - b ELSE b - a

TimesWithinTolerance(a, b) == AbsDiff(a, b) <= Tolerance

\* The condition of the AssertThrow on the two restored times.
TimesConsistent(a, b) == a = b

\* time.current() of the orchestrator's clock, which counts from 0.
TimeCurrent(timestep) == timestep * TicksPerStep

RefinementIntervals == {2, MaxEnd + 1}

SaveIntervals == {1, 2}

\* Time::time_to_refine and Time::time_to_save.
TimeTo(timestep, interval) == timestep >= interval /\ timestep % interval = 0

\* The statement that follows statement p of the loop body, up to
\* time.increment().
FollowsFluidStepFirst(p) ==
  CASE p = "find_solid_bc" ->
         IF success_load THEN "assemble_system" ELSE "solid_run_one_step"
    [] p = "assemble_system" -> "solid_run_one_step"
    [] p = "solid_run_one_step" -> "update_solid_box"
    [] p = "update_solid_box" -> "make_constraints"
    [] p = "make_constraints" ->
         IF ~first_step THEN "reset_nonzero" ELSE "fluid_run_one_step"
    [] p = "reset_nonzero" -> "fluid_run_one_step"
    [] p = "fluid_run_one_step" -> "find_fluid_bc"
    [] p = "find_fluid_bc" -> "time_increment"

Follows(p) ==
  CASE p = "find_solid_bc" ->
         IF success_load THEN "assemble_system" ELSE "solid_run_one_step"
    [] p = "assemble_system" -> "solid_run_one_step"
    [] p = "solid_run_one_step" -> "update_solid_box"
    [] p = "update_solid_box" -> "make_constraints"
    [] p = "make_constraints" ->
         IF ~first_step THEN "reset_nonzero" ELSE "find_fluid_bc"
    [] p = "reset_nonzero" -> "find_fluid_bc"
    [] p = "find_fluid_bc" -> "fluid_run_one_step"
    [] p = "fluid_run_one_step" -> "time_increment"

\* The statement after time.increment() and after the refinement block.
AfterIncrementSaveFirst(timestep) ==
  IF TimeTo(timestep, save_interval) THEN "save_checkpoint"
  ELSE IF TimeTo(timestep, refinement_interval) THEN "refine_mesh"
  ELSE "loop"

AfterIncrement(timestep) ==
  IF TimeTo(timestep, refinement_interval) THEN "refine_mesh"
  ELSE IF TimeTo(timestep, save_interval) THEN "save_checkpoint"
  ELSE "loop"

AfterRefinement(timestep) ==
  IF TimeTo(timestep, save_interval) THEN "save_checkpoint" ELSE "loop"

Done(op) == iter_ops' = Append(iter_ops, op)

MeshUntouched == UNCHANGED varsMesh

Parameters == UNCHANGED <<end_time, refinement_interval, save_interval>>

Checkpoints == UNCHANGED <<solid_saved, fluid_saved>>

\* The two constraint sets of the fluid solver are left alone.
Constraints == UNCHANGED <<nonzero_constraints, zero_constraints>>

\* fluid_solver.make_constraints rebuilds both sets from the boundary values:
\* of the fluid dofs of the run, two are on the physical boundary, the
\* velocity being prescribed as 1 on "inflow" and as 0 on "wall", and two,
\* "a" and "b", are in the interior.
RunPhysicalNonzero == [d \in {"inflow", "wall"} |-> IF d = "inflow" THEN 1 ELSE 0]

RunPhysicalZero == [d \in DOMAIN RunPhysicalNonzero |-> 0]

\* The lines find_fluid_bc may collect in inner_nonzero: none (no support
\* point inside the solid), one interior dof, or an interior dof and one of
\* the physical boundary, each with its velocity increment.
CouplingLines ==
  { NoLines,
    [d \in {"a"} |-> 2],
    [d \in {"b", "wall"} |-> 3] }

\* inner_zero has the lines of inner_nonzero without inhomogeneity.
Homogeneous(lines) == [d \in DOMAIN lines |-> 0]

NonzeroKept(nonzero, zero) == nonzero

\* nonzero_constraints.clear(); nonzero_constraints.copy_from(zero_constraints).
NonzeroReset(nonzero, zero) == zero

\* The fluid triangulation and the hints stored for its cells are left alone.
FluidMesh == UNCHANGED <<fluid_generation, cell_hints>>

\* fluid_solver.fe.get_unit_support_points().size()
n_unit_points == 2

\* The active cells of the fluid triangulation after its rebuild number
\* generation: cell <<0, 0>> is neither refined nor coarsened and survives
\* every rebuild, the others are new.
FluidCells(generation) == {<<0, 0>>} \cup {<<generation, k>> : k \in 1..2}

\* cell->is_artificial(): the second new cell belongs to another rank.
is_artificial(cell) == cell[2] = 2

NonArtificialCells(generation) == {c \in FluidCells(generation) : ~is_artificial(c)}

\* A hint: the solid cell iterator, and the rebuild after which it was stored.
Hint(seed, generation) == [seed |-> seed, mesh |-> generation]

initialize_cell_hints(hints, generation) ==
  [c \in (DOMAIN hints) \cup NonArtificialCells(generation) |->
     IF c \in DOMAIN hints THEN hints[c]
     ELSE [v \in 1..n_unit_points |-> Hint("begin_active", generation)]]

\* setup_cell_hints: cell_hints.initialize creates the hints of a cell that
\* has none, and the loop sets every hint of every non-artificial cell to
\* solid_solver.dof_handler.begin_active().
setup_cell_hints(hints, generation) ==
  [c \in (DOMAIN hints) \cup NonArtificialCells(generation) |->
     IF c \in NonArtificialCells(generation)
       THEN [v \in 1..n_unit_points |-> Hint("begin_active", generation)]
       ELSE hints[c]]

\* find_fluid_bc: *(hints[i]) = locator.search() for the support points
\* inside the solid (here the first support point of every cell).
search_cell_hints(hints, generation) ==
  [c \in DOMAIN hints |->
     IF c \in NonArtificialCells(generation)
       THEN [hints[c] EXCEPT ![1] = Hint("located", generation)]
       ELSE hints[c]]

Init ==
  /\ ParkPoint
  /\ ParkBC
  /\ ParkMotion
  /\ ParkSolid
  /\ ParkColl
  /\ pc = "load_checkpoint"
  /\ success_load = FALSE
  /\ first_step = FALSE
  /\ time_step = 0
  /\ solid_timestep = 0
  /\ fluid_timestep = 0
  /\ solid_current = 0
  /\ fluid_current = 0
  /\ end_time \in 1..(MaxEnd * TicksPerStep)
  /\ refinement_interval \in RefinementIntervals
  /\ save_interval \in SaveIntervals
  /\ iter_ops = <<>>
  /\ iter_first = FALSE
  /\ fluid_generation = 0
  /\ cell_hints = <<>>
  /\ solid_saved = {}
  /\ fluid_saved = {}
  /\ nonzero_constraints = <<>>
  /\ zero_constraints = <<>>
  /\ vertex = RefVertices
  /\ current_displacement = [idx \in SolidVertexIndices |-> <<0, 0>>]
  /\ mesh_depth = 0
  /\ solid_box = ZeroBox(2)

\* success_load = solid.load_checkpoint() && fluid.load_checkpoint(): the
\* fluid one is not tried when the solid one fails.  A solver that loads
\* takes the time and the solution of its checkpoint.
LoadCheckpoint ==
  /\ pc = "load_checkpoint"
  /\ \/ /\ success_load' = FALSE
        /\ UNCHANGED <<solid_timestep, fluid_timestep, solid_current,
                       fluid_current, current_displacement>>
     \/ /\ success_load' = FALSE
        /\ solid_timestep' \in 1..(MaxEnd - 1)
        /\ solid_current' = TimeCurrent(solid_timestep')
        /\ current_displacement' \in DisplacementFields
        /\ UNCHANGED <<fluid_timestep, fluid_current>>
     \/ /\ success_load' = TRUE
        /\ solid_timestep' \in 1..(MaxEnd - 1)
        /\ solid_current' = TimeCurrent(solid_timestep')
        /\ current_displacement' \in DisplacementFields
        /\ fluid_timestep' \in 1..(MaxEnd - 1)
        /\ \E r \in RestoreRoundings :
             fluid_current' = TimeCurrent(fluid_timestep') + r
  /\ pc' = "check_times"
  /\ UNCHANGED <<first_step, time_step, iter_ops, iter_first>>
  /\ UNCHANGED <<vertex, mesh_depth, solid_box>>
  /\ Parameters
  /\ Constraints
  /\ Checkpoints
  /\ FluidMesh
  /\ UNCHANGED <<varsPt, varsBC, varsMo, varsSo, varsColl>>

\* AssertThrow(solid_solver.time.current() == fluid_solver.time.current()).
RestartFilesDiffer ==
  /\ pc = "check_times"
  /\ ~TimesConsistent(solid_current, fluid_current)
  /\ pc' = "restart_error"
  /\ UNCHANGED <<success_load, first_step, time_step, solid_timestep,
                 fluid_timestep, solid_current, fluid_current, iter_ops, iter_first>>
  /\ MeshUntouched
  /\ Parameters
  /\ Constraints
  /\ Checkpoints
  /\ FluidMesh
  /\ UNCHANGED <<varsPt, varsBC, varsMo, varsSo, varsColl>>

NoFastForward(timestep, solid_step) == timestep

\* while (time.get_timestep() < solid_solver.time.get_timestep())
\*   time.increment();
FastForward(timestep, solid_step) ==
  IF timestep < solid_step THEN solid_step ELSE timestep

\* The set-up of a fresh run or the fast-forward of the orchestrator's clock,
\* then collect_solid_boundaries, setup_cell_hints and first_step.
SetUp ==
  /\ pc = "check_times"
  /\ TimesConsistent(solid_current, fluid_current)
  /\ time_step' = IF success_load THEN FastForward(time_step, solid_timestep)
                   ELSE time_step
  /\ first_step' = ~success_load
  /\ pc' = IF TimeCurrent(refinement_interval) < end_time
             THEN "initial_refine_mesh" ELSE "loop"
  /\ UNCHANGED <<success_load, solid_timestep, fluid_timestep, solid_current,
                 fluid_current, iter_ops, iter_first>>
  /\ cell_hints' = setup_cell_hints(cell_hints, fluid_generation)
  /\ UNCHANGED fluid_generation
  /\ nonzero_constraints' = IF success_load THEN nonzero_constraints
                             ELSE RunPhysicalNonzero
  /\ zero_constraints' = IF success_load THEN zero_constraints ELSE RunPhysicalZero
  /\ MeshUntouched
  /\ Parameters
  /\ Checkpoints
  /\ UNCHANGED <<varsPt, varsBC, varsMo, varsSo, varsColl>>

LoopContinuesUntilPast(end, current) == end - current > 0 - Tolerance

\* The condition of the while loop.
LoopContinues(end, current) == end - current > Tolerance

\* while (time.end() - time.current() > 1e-12)
LoopTest ==
  /\ pc = "loop"
  /\ pc' = IF LoopContinues(end_time, TimeCurrent(time_step))
             THEN "find_solid_bc" ELSE "done"
  /\ iter_ops' = IF pc' = "done" THEN iter_ops ELSE <<>>
  /\ iter_first' = IF pc' = "done" THEN iter_first ELSE first_step
  /\ UNCHANGED <<success_load, first_step, time_step, solid_timestep, fluid_timestep,
                 solid_current, fluid_current>>
  /\ MeshUntouched
  /\ Parameters
  /\ Constraints
  /\ Checkpoints
  /\ FluidMesh
  /\ UNCHANGED <<varsPt, varsBC, varsMo, varsSo, varsColl>>

RunScopes ==
  {"find_solid_bc", "update_solid_box", "find_fluid_bc", "refine_mesh",
   "initial_refine_mesh"}

Clocks ==
  UNCHANGED <<time_step, solid_timestep, fluid_timestep, solid_current, fluid_current>>

Flags == UNCHANGED <<success_load, first_step, iter_first>>

\* move_solid_mesh(true), the first statement of a coupling operation.
ScopeBegin(op) ==
  /\ pc = op
  /\ mesh_depth = 0
  /\ vertex' = move_solid_mesh(vertex, current_displacement, TRUE)
  /\ mesh_depth' = 1
  /\ UNCHANGED <<current_displacement, solid_box>>
  /\ UNCHANGED <<pc, iter_ops>>
  /\ Flags /\ Clocks /\ Parameters
  /\ Constraints
  /\ Checkpoints
  /\ FluidMesh
  /\ UNCHANGED <<varsPt, varsBC, varsMo, varsSo, varsColl>>

\* The rest of find_solid_bc.
FindSolidBCReturns ==
  /\ pc = "find_solid_bc"
  /\ mesh_depth = 1
  /\ vertex' = move_solid_mesh(vertex, current_displacement, FALSE)
  /\ mesh_depth' = 0
  /\ Done("find_solid_bc")
  /\ pc' = Follows("find_solid_bc")
  /\ UNCHANGED <<current_displacement, solid_box>>
  /\ Flags /\ Clocks /\ Parameters
  /\ Constraints
  /\ Checkpoints
  /\ FluidMesh
  /\ UNCHANGED <<varsPt, varsBC, varsMo, varsSo, varsColl>>

\* solid_solver.assemble_system(true) of a restored run.
SolidAssembleSystem ==
  /\ pc = "assemble_system"
  /\ Done("assemble_system")
  /\ pc' = Follows("assemble_system")
  /\ MeshUntouched
  /\ Flags /\ Clocks /\ Parameters
  /\ Constraints
  /\ Checkpoints
  /\ FluidMesh
  /\ UNCHANGED <<varsPt, varsBC, varsMo, varsSo, varsColl>>

\* solid_solver.run_one_step(first_step): the solid's clock advances and
\* Newton's iteration yields the new displacement.
SolidRunOneStep ==
  /\ pc = "solid_run_one_step"
  /\ solid_timestep' = solid_timestep + 1
  /\ solid_current' = solid_current + TicksPerStep
  /\ current_displacement' \in DisplacementFields
  /\ Done("solid_run_one_step")
  /\ pc' = Follows("solid_run_one_step")
  /\ UNCHANGED <<vertex, mesh_depth, solid_box>>
  /\ UNCHANGED <<time_step, fluid_timestep, fluid_current>>
  /\ Flags /\ Parameters
  /\ Constraints
  /\ Checkpoints
  /\ FluidMesh
  /\ UNCHANGED <<varsPt, varsBC, varsMo, varsSo, varsColl>>

\* solid_solver.run_one_step: "Too many Newton iterations!".
SolidRunOneStepThrows ==
  /\ pc = "solid_run_one_step"
  /\ solid_timestep' = solid_timestep + 1
  /\ solid_current' = solid_current + TicksPerStep
  /\ pc' = "aborted"
  /\ UNCHANGED iter_ops
  /\ MeshUntouched
  /\ UNCHANGED <<time_step, fluid_timestep, fluid_current>>
  /\ Flags /\ Parameters
  /\ Constraints
  /\ Checkpoints
  /\ FluidMesh
  /\ UNCHANGED <<varsPt, varsBC, varsMo, varsSo, varsColl>>

\* The rest of update_solid_box.
UpdateSolidBoxReturns ==
  /\ pc = "update_solid_box"
  /\ mesh_depth = 1
  /\ solid_box' = SolidBoxOf(VertexList(vertex), 2)
  /\ vertex' = move_solid_mesh(vertex, current_displacement, FALSE)
  /\ mesh_depth' = 0
  /\ Done("update_solid_box")
  /\ pc' = Follows("update_solid_box")
  /\ UNCHANGED current_displacement
  /\ Flags /\ Clocks /\ Parameters
  /\ Constraints
  /\ Checkpoints
  /\ FluidMesh
  /\ UNCHANGED <<varsPt, varsBC, varsMo, varsSo, varsColl>>

\* fluid_solver.make_constraints().
FluidMakeConstraints ==
  /\ pc = "make_constraints"
  /\ Done("make_constraints")
  /\ pc' = Follows("make_constraints")
  /\ nonzero_constraints' = RunPhysicalNonzero
  /\ zero_constraints' = RunPhysicalZero
  /\ MeshUntouched
  /\ Flags /\ Clocks /\ Parameters
  /\ Checkpoints
  /\ FluidMesh
  /\ UNCHANGED <<varsPt, varsBC, varsMo, varsSo, varsColl>>

\* nonzero_constraints.clear(); nonzero_constraints.copy_from(zero_constraints).
ResetNonzeroConstraints ==
  /\ pc = "reset_nonzero"
  /\ Done("reset_nonzero")
  /\ pc' = Follows("reset_nonzero")
  /\ nonzero_constraints' = NonzeroReset(nonzero_constraints, zero_constraints)
  /\ UNCHANGED zero_constraints
  /\ MeshUntouched
  /\ Flags /\ Clocks /\ Parameters
  /\ Checkpoints
  /\ FluidMesh
  /\ UNCHANGED <<varsPt, varsBC, varsMo, varsSo, varsColl>>

\* The rest of find_fluid_bc.
FindFluidBCReturns ==
  /\ pc = "find_fluid_bc"
  /\ mesh_depth = 1
  /\ vertex' = move_solid_mesh(vertex, current_displacement, FALSE)
  /\ mesh_depth' = 0
  /\ Done("find_fluid_bc")
  /\ pc' = Follows("find_fluid_bc")
  /\ UNCHANGED <<current_displacement, solid_box>>
  /\ Flags /\ Clocks /\ Parameters
  /\ Checkpoints
  /\ \E inner_nonzero \in CouplingLines :
       /\ cell_hints' = IF inner_nonzero # NoLines
                          THEN search_cell_hints(cell_hints, fluid_generation)
                          ELSE cell_hints
       /\ nonzero_constraints' = MergeLeftWins(nonzero_constraints, inner_nonzero)
       /\ zero_constraints' =
            MergeLeftWins(zero_constraints, Homogeneous(inner_nonzero))
  /\ UNCHANGED fluid_generation
  /\ UNCHANGED <<varsPt, varsBC, varsMo, varsSo, varsColl>>

\* find_fluid_bc is left by "Cannot find point in solid!": run() ends.
FindFluidBCAborts ==
  /\ pc = "find_fluid_bc"
  /\ mesh_depth = 1
  /\ vertex' = MeshAfterThrow(vertex, current_displacement)
  /\ pc' = "aborted"
  /\ UNCHANGED <<current_displacement, mesh_depth, solid_box>>
  /\ UNCHANGED iter_ops
  /\ Flags /\ Clocks /\ Parameters
  /\ Constraints
  /\ Checkpoints
  /\ \E inside \in BOOLEAN :
       cell_hints' = IF inside THEN search_cell_hints(cell_hints, fluid_generation)
                     ELSE cell_hints
  /\ UNCHANGED fluid_generation
  /\ UNCHANGED <<varsPt, varsBC, varsMo, varsSo, varsColl>>

\* fluid_solver.run_one_step(true): the fluid's clock advances.
FluidRunOneStep ==
  /\ pc = "fluid_run_one_step"
  /\ fluid_timestep' = fluid_timestep + 1
  /\ fluid_current' = fluid_current + TicksPerStep
  /\ Done("fluid_run_one_step")
  /\ pc' = Follows("fluid_run_one_step")
  /\ MeshUntouched
  /\ UNCHANGED <<time_step, solid_timestep, solid_current>>
  /\ Flags /\ Parameters
  /\ Constraints
  /\ Checkpoints
  /\ FluidMesh
  /\ UNCHANGED <<varsPt, varsBC, varsMo, varsSo, varsColl>>

\* first_step = false; time.increment(); and the two tests that follow.
TimeIncrement ==
  /\ pc = "time_increment"
  /\ first_step' = FALSE
  /\ time_step' = time_step + 1
  /\ Done("time_increment")
  /\ pc' = AfterIncrement(time_step')
  /\ MeshUntouched
  /\ UNCHANGED <<success_load, iter_first, solid_timestep, fluid_timestep,
                 solid_current, fluid_current>>
  /\ Parameters
  /\ Constraints
  /\ Checkpoints
  /\ FluidMesh
  /\ UNCHANGED <<varsPt, varsBC, varsMo, varsSo, varsColl>>

\* refine_mesh up to its move_solid_mesh(false): the flags are set on the
\* moved mesh and the mesh is moved back.
RefineMeshFlagsSet ==
  /\ pc \in {"refine_mesh", "initial_refine_mesh"}
  /\ mesh_depth = 1
  /\ vertex' = move_solid_mesh(vertex, current_displacement, FALSE)
  /\ mesh_depth' = 0
  /\ pc' = IF pc = "refine_mesh" THEN "execute_refinement"
           ELSE "initial_execute_refinement"
  /\ UNCHANGED <<current_displacement, solid_box, iter_ops>>
  /\ Flags /\ Clocks /\ Parameters
  /\ Constraints
  /\ Checkpoints
  /\ FluidMesh
  /\ UNCHANGED <<varsPt, varsBC, varsMo, varsSo, varsColl>>

\* The rest of refine_mesh: execute_coarsening_and_refinement, the fluid
\* solver's setup_dofs, make_constraints, initialize_system and the transfer
\* of the solution.
ExecuteRefinement ==
  /\ pc \in {"execute_refinement", "initial_execute_refinement"}
  /\ fluid_generation' = fluid_generation + 1
  /\ iter_ops' = IF pc = "execute_refinement" THEN Append(iter_ops, "refine_mesh")
                 ELSE iter_ops
  /\ pc' = IF pc = "execute_refinement" THEN "setup_cell_hints"
           ELSE "initial_setup_cell_hints"
  /\ UNCHANGED cell_hints
  /\ nonzero_constraints' = RunPhysicalNonzero
  /\ zero_constraints' = RunPhysicalZero
  /\ MeshUntouched
  /\ Flags /\ Clocks /\ Parameters
  /\ Checkpoints
  /\ UNCHANGED <<varsPt, varsBC, varsMo, varsSo, varsColl>>

\* setup_cell_hints() after a refinement.
SetupCellHints ==
  /\ pc \in {"setup_cell_hints", "initial_setup_cell_hints"}
  /\ iter_ops' = IF pc = "setup_cell_hints"
                   THEN Append(iter_ops, "setup_cell_hints") ELSE iter_ops
  /\ pc' = IF pc = "setup_cell_hints" THEN AfterRefinement(time_step) ELSE "loop"
  /\ MeshUntouched
  /\ Flags /\ Clocks /\ Parameters
  /\ Constraints
  /\ Checkpoints
  /\ cell_hints' = setup_cell_hints(cell_hints, fluid_generation)
  /\ UNCHANGED fluid_generation
  /\ UNCHANGED <<varsPt, varsBC, varsMo, varsSo, varsColl>>

\* solid_solver.save_checkpoint(time.get_timestep()).
SaveSolidCheckpoint ==
  /\ pc = "save_checkpoint"
  /\ solid_saved' = solid_saved \cup {time_step}
  /\ pc' = "save_fluid_checkpoint"
  /\ UNCHANGED <<fluid_saved, iter_ops>>
  /\ MeshUntouched
  /\ Flags /\ Clocks /\ Parameters
  /\ Constraints
  /\ FluidMesh
  /\ UNCHANGED <<varsPt, varsBC, varsMo, varsSo, varsColl>>

\* fluid_solver.save_checkpoint(time.get_timestep()).
SaveFluidCheckpoint ==
  /\ pc = "save_fluid_checkpoint"
  /\ fluid_saved' = fluid_saved \cup {time_step}
  /\ Done("save_checkpoint")
  /\ pc' = "loop"
  /\ UNCHANGED solid_saved
  /\ MeshUntouched
  /\ Flags /\ Clocks /\ Parameters
  /\ Constraints
  /\ FluidMesh
  /\ UNCHANGED <<varsPt, varsBC, varsMo, varsSo, varsColl>>

Next ==
  \/ LoadCheckpoint
  \/ RestartFilesDiffer
  \/ SetUp
  \/ LoopTest
  \/ \E op \in RunScopes : ScopeBegin(op)
  \/ FindSolidBCReturns
  \/ SolidAssembleSystem
  \/ SolidRunOneStep
  \/ SolidRunOneStepThrows
  \/ UpdateSolidBoxReturns
  \/ FluidMakeConstraints
  \/ ResetNonzeroConstraints
  \/ FindFluidBCReturns
  \/ FindFluidBCAborts
  \/ FluidRunOneStep
  \/ TimeIncrement
  \/ RefineMeshFlagsSet
  \/ ExecuteRefinement
  \/ SetupCellHints
  \/ SaveSolidCheckpoint
  \/ SaveFluidCheckpoint

Spec == Init /\ [][Next]_vars

Range(seq) == {seq[i] : i \in 1..Len(seq)}

\* The loop body up to time.increment(), as the iteration's flags select it.
ExpectedOps ==
  <<"find_solid_bc">>
  \o (IF success_load THEN <<"assemble_system">> ELSE <<>>)
  \o <<"solid_run_one_step", "update_solid_box", "make_constraints">>
  \o (IF ~iter_first THEN <<"reset_nonzero">> ELSE <<>>)
  \o <<"find_fluid_bc", "fluid_run_one_step", "time_increment">>

IterationOver == pc \in {"loop", "done"} /\ iter_ops # <<>>

\* C1: in every loop iteration the operations complete in the order
\* find_solid_bc, (restored run: solid assemble_system), solid run_one_step,
\* update_solid_box, fluid make_constraints, (not the first step: reset of
\* the nonzero set), find_fluid_bc, fluid run_one_step, time.increment; what
\* has completed so far is a prefix of that order, and an iteration that is
\* over has completed all of it.
C1_LoopOrder ==
  pc \notin {"off", "load_checkpoint", "check_times", "initial_refine_mesh",
             "initial_execute_refinement", "initial_setup_cell_hints"} =>
    LET n == Min2(Len(iter_ops), Len(ExpectedOps)) IN
      /\ SubSeq(iter_ops, 1, n) = ExpectedOps
           \/ (n < Len(ExpectedOps) /\ SubSeq(iter_ops, 1, n) = SubSeq(ExpectedOps, 1, n))
      /\ IterationOver => Len(iter_ops) >= Len(ExpectedOps)
      /\ pc \in {"fluid_run_one_step", "time_increment"} =>
           "find_fluid_bc" \in Range(iter_ops)
      /\ "find_fluid_bc" \in Range(iter_ops) =>
           {"solid_run_one_step", "update_solid_box"} \subseteq Range(iter_ops)

\* A fresh run has finished its second iteration, the one with the reset.
C1_Witness ==
  /\ IterationOver
  /\ ~success_load
  /\ time_step = 2
  /\ "reset_nonzero" \in Range(iter_ops)
  /\ "assemble_system" \notin Range(iter_ops)

\* The statements of run() that follow a start-up that has not aborted.
Proceeds == {"loop", "initial_refine_mesh"}

\* C12: with both checkpoints restored, the test of the restored times sends
\* run() to the fatal consistency error when the two times differ by more
\* than the tolerance, and lets it proceed when they differ by at most the
\* tolerance, bit-identical or not.
C12_ToleranceAtStartUp ==
  [][(pc = "check_times" /\ success_load) =>
       /\ AbsDiff(solid_current, fluid_current) > Tolerance => pc' = "restart_error"
       /\ AbsDiff(solid_current, fluid_current) <= Tolerance => pc' \in Proceeds]_vars

\* C12 as the code has it: with both checkpoints restored, run() proceeds
\* exactly when the two restored times are identical; any difference, within
\* the tolerance or not, sends it to the fatal consistency error, and at
\* that error no iteration has begun and the solid mesh is untouched.
C12_IdenticalTimesOnly ==
  /\ [][(pc = "check_times" /\ success_load) =>
          /\ solid_current # fluid_current => pc' = "restart_error"
          /\ solid_current = fluid_current => pc' \in Proceeds]_vars
  /\ [](pc = "restart_error" =>
          /\ iter_ops = <<>> /\ time_step = 0
          /\ mesh_depth = 0 /\ vertex = RefVertices
          /\ solid_current = TimeCurrent(solid_timestep))

\* Two restored times that differ by no more than the tolerance have ended
\* the run.
C12_Witness ==
  /\ pc = "restart_error"
  /\ success_load
  /\ solid_current # fluid_current
  /\ TimesWithinTolerance(solid_current, fluid_current)

\* C13: when the restore has not succeeded for both solvers, run() goes on
\* from scratch: it proceeds with first_step = true and every clock at 0;
\* and it proceeds with first_step = false, from the restored step, only when
\* both restores have succeeded.
C13_FreshUnlessBothRestored ==
  [][pc = "check_times" =>
       /\ ~success_load =>
            /\ pc' \in Proceeds
            /\ first_step'
            /\ time_step' = 0 /\ solid_current' = 0 /\ fluid_current' = 0
       /\ (pc' \in Proceeds /\ ~first_step') =>
            (success_load /\ time_step' = solid_timestep)]_vars

\* What the code does instead (C13): a solid restore that succeeds followed
\* by a fluid restore that fails ends in the fatal consistency error, the
\* solid's restored time being different from the fluid's 0.
C13_SolidOnlyRestoreAborts ==
  [][pc = "check_times" =>
       /\ (~success_load /\ solid_timestep = 0) =>
            /\ pc' \in Proceeds
            /\ first_step'
            /\ time_step' = 0 /\ solid_current' = 0 /\ fluid_current' = 0
       /\ (~success_load /\ solid_timestep > 0) => pc' = "restart_error"
       /\ (pc' \in Proceeds /\ ~first_step') =>
            (success_load /\ time_step' = solid_timestep)]_vars

\* run() is one sequential program: a statement that can execute does.
SpecLive == Spec /\ WF_vars(Next)

Terminal == {"done", "aborted", "restart_error"}

\* The statements of the loop body up to time.increment().
BeforeIncrement ==
  {"find_solid_bc", "assemble_system", "solid_run_one_step", "update_solid_box",
   "make_constraints", "reset_nonzero", "find_fluid_bc", "fluid_run_one_step",
   "time_increment"}

\* C14: run() ends, in Finished unless a fatal error has ended it; it is in
\* Finished only with time.end() - time.current() at most the tolerance and
\* in the loop body only with more than the tolerance left; nothing executes
\* after Finished; and a run whose clock is at or beyond the end time when
\* the loop is first tested finishes without a step.
C14_Finishes ==
  /\ <>(pc \in Terminal)
  /\ [](pc = "done" => end_time - TimeCurrent(time_step) <= Tolerance)
  /\ [](pc \in BeforeIncrement => end_time - TimeCurrent(time_step) > Tolerance)
  /\ [][pc # "done"]_vars
  /\ [][(pc = "loop" /\ end_time - TimeCurrent(time_step) <= Tolerance) =>
          /\ pc' = "done"
          /\ UNCHANGED <<iter_ops, time_step, solid_timestep, fluid_timestep,
                         solid_current, fluid_current, varsMesh>>]_vars
  /\ []((pc = "done" /\ success_load
           /\ end_time - TimeCurrent(solid_timestep) <= Tolerance
           /\ iter_ops = <<>>) =>
          (time_step = solid_timestep /\ solid_current = TimeCurrent(solid_timestep)))

\* A fresh run has finished with a positive remainder of time that is no more
\* than the tolerance.
C14_Witness ==
  /\ pc = "done"
  /\ ~success_load
  /\ iter_ops # <<>>
  /\ end_time - TimeCurrent(time_step) = Tolerance

\* A run restored beyond the end time has finished without a step.
RestoredPastEndFinished ==
  /\ pc = "done"
  /\ success_load
  /\ iter_ops = <<>>
  /\ TimeCurrent(time_step) > end_time

\* Every non-artificial cell of the present fluid mesh has its n_unit_points
\* hints, all of them stored since the last rebuild.
HintsCurrent ==
  \A c \in NonArtificialCells(fluid_generation) :
    /\ c \in DOMAIN cell_hints
    /\ DOMAIN cell_hints[c] = 1..n_unit_points
    /\ \A v \in 1..n_unit_points : cell_hints[c][v].mesh = fluid_generation

\* Every hint of every non-artificial cell is the solid's first active cell.
HintsReset ==
  \A c \in NonArtificialCells(fluid_generation) :
    /\ c \in DOMAIN cell_hints
    /\ DOMAIN cell_hints[c] = 1..n_unit_points
    /\ \A v \in 1..n_unit_points :
         cell_hints[c][v] = Hint("begin_active", fluid_generation)

\* C17: refine_mesh is followed by setup_cell_hints; setup_cell_hints leaves
\* every non-artificial fluid cell with n_unit_points hints equal to the
\* solid's first active cell; and whenever find_fluid_bc is about to run or
\* is running, every non-artificial cell has its hints and none of them was
\* stored before the last rebuild of the fluid mesh.
C17_HintsReseeded ==
  /\ [](pc = "find_fluid_bc" => HintsCurrent)
  /\ [][(pc \in {"refine_mesh", "initial_refine_mesh"}) =>
          (pc' = pc \/ pc' \in {"execute_refinement", "initial_execute_refinement"})]_vars
  /\ [][(pc \in {"execute_refinement", "initial_execute_refinement"}) =>
          pc' \in {"setup_cell_hints", "initial_setup_cell_hints"}]_vars
  /\ [][(pc \in {"setup_cell_hints", "initial_setup_cell_hints", "check_times"}) =>
          (pc' = "restart_error" \/ HintsReset')]_vars

\* find_fluid_bc is about to run, in an iteration after the one that
\* rebuilt the fluid mesh, on hints that were all reset.
C17_Witness ==
  /\ pc = "find_fluid_bc"
  /\ mesh_depth = 0
  /\ time_step >= 2
  /\ fluid_generation >= 1
  /\ "refine_mesh" \notin Range(iter_ops)
  /\ HintsReset

\* C19: an iteration whose step index satisfies the save predicate ends with
\* a solid and a fluid checkpoint of that index, written after the
\* refinement when one is due in the same iteration; no checkpoint is written
\* at another index; and outside the two save statements the solid and the
\* fluid checkpoints written are the same.
C19_CheckpointsPaired ==
  /\ pc # "save_fluid_checkpoint" => solid_saved = fluid_saved
  /\ pc = "save_fluid_checkpoint" => solid_saved = fluid_saved \cup {time_step}
  /\ \A n \in solid_saved \cup fluid_saved : TimeTo(n, save_interval)
  /\ IterationOver =>
       /\ TimeTo(time_step, save_interval) <=>
            (time_step \in solid_saved /\ time_step \in fluid_saved)
       /\ TimeTo(time_step, save_interval) <=>
            iter_ops[Len(iter_ops)] = "save_checkpoint"
       /\ TimeTo(time_step, refinement_interval) <=>
            "refine_mesh" \in Range(iter_ops)
       /\ "refine_mesh" \in Range(iter_ops) =>
            \E n \in 1..(Len(iter_ops) - 1) :
              iter_ops[n] = "refine_mesh" /\ iter_ops[n + 1] = "setup_cell_hints"

\* An iteration with a refinement has ended with both checkpoints written.
C19_Witness ==
  /\ IterationOver
  /\ "refine_mesh" \in Range(iter_ops)
  /\ time_step \in solid_saved
  /\ time_step \in fluid_saved

\* The statements of run() that call into a solver.
SolverOperations ==
  {"assemble_system", "solid_run_one_step", "make_constraints", "reset_nonzero",
   "fluid_run_one_step", "execute_refinement", "initial_execute_refinement",
   "save_checkpoint", "save_fluid_checkpoint"}

\* C20: the number of move_solid_mesh(true) calls not yet undone is 0 or 1;
\* it is 1 only inside a coupling operation (or after one was left by an
\* exception); and when a solver operation is about to run it is 0 and the
\* solid mesh is in the reference configuration.
C20_ScopesDoNotNest ==
  /\ mesh_depth \in {0, 1}
  /\ mesh_depth = 1 => pc \in RunScopes \cup {"aborted"}
  /\ pc \in SolverOperations => (mesh_depth = 0 /\ vertex = RefVertices)

\* The fluid step is about to run on a displaced solid whose box was taken
\* on the moved mesh.
C20_Witness ==
  /\ pc = "fluid_run_one_step"
  /\ SharedVertexDisplaced
  /\ solid_box # ZeroBox(2)
  /\ solid_box # SolidBoxOf(VertexList(RefVertices), 2)
  /\ mesh_depth = 0

\* The box holds every vertex of the mesh as it stands.
BoxEncloses(box, verts) ==
  \A idx \in DOMAIN verts : \A i \in 1..2 :
    box[2 * i - 1] <= verts[idx][i] /\ verts[idx][i] <= box[2 * i]

\* Every bound of the box is the coordinate of some vertex.
BoxTight(box, verts) ==
  \A i \in 1..2 :
    /\ \E idx \in DOMAIN verts : box[2 * i - 1] = verts[idx][i]
    /\ \E idx \in DOMAIN verts : box[2 * i] = verts[idx][i]

\* The statements of the loop body between update_solid_box and the end of
\* find_fluid_bc.
BoxInUse == {"make_constraints", "reset_nonzero", "find_fluid_bc"}

\* C21: while find_fluid_bc evaluates point_in_solid, on the moved mesh, the
\* bounds of solid_box are per axis the least and the greatest coordinate of
\* the vertices of that mesh, so the box encloses every one of them;
\* update_solid_box has completed in the same iteration, after the solid
\* step; and current_displacement does not change from the recomputation to
\* the end of find_fluid_bc.
C21_BoxEnclosesAtUse ==
  /\ []((pc = "find_fluid_bc" /\ mesh_depth = 1) =>
          /\ BoxEncloses(solid_box, vertex)
          /\ BoxTight(solid_box, vertex)
          /\ vertex = move_solid_mesh(RefVertices, current_displacement, TRUE)
          /\ \E n \in 2..Len(iter_ops) :
               /\ iter_ops[n] = "update_solid_box"
               /\ iter_ops[n - 1] = "solid_run_one_step")
  /\ [][(pc \in BoxInUse) => UNCHANGED <<current_displacement, solid_box>>]_vars
  /\ [][(pc = "update_solid_box" /\ pc' # pc) =>
          (BoxEncloses(solid_box', vertex) /\ BoxTight(solid_box', vertex))]_vars

\* find_fluid_bc is at work in a later iteration on a solid whose box is not
\* the one of the iteration before nor the one of the reference mesh.
C21_Witness ==
  /\ pc = "find_fluid_bc"
  /\ mesh_depth = 1
  /\ time_step >= 1
  /\ SharedVertexDisplaced
  /\ solid_box # SolidBoxOf(VertexList(RefVertices), 2)
  /\ \E idx \in SolidVertexIndices : current_displacement[idx] # current_displacement[1]

\* The iteration under way is the first one of a run that was not restored.
FirstIterationOfFreshRun == ~success_load /\ time_step = 0

\* C22: the reset leaves the nonzero set equal to the zero set; when
\* find_fluid_bc is about to run in the first iteration of a fresh run, no
\* reset has run and the nonzero set is the one make_constraints built; in
\* every other iteration, the first one of a restored run included, the reset
\* has run after make_constraints, and the nonzero set equals the zero set,
\* has no inhomogeneity and has the lines of the physical boundary only.
C22_NonzeroResetButFirstFresh ==
  /\ [][(pc = "reset_nonzero" /\ pc' # pc) =>
          (nonzero_constraints' = zero_constraints /\ UNCHANGED zero_constraints)]_vars
  /\ []((pc = "find_fluid_bc" /\ mesh_depth = 0) =>
          IF FirstIterationOfFreshRun
            THEN /\ "reset_nonzero" \notin Range(iter_ops)
                 /\ nonzero_constraints = RunPhysicalNonzero
                 /\ iter_ops[Len(iter_ops)] = "make_constraints"
            ELSE /\ Len(iter_ops) >= 2
                 /\ iter_ops[Len(iter_ops)] = "reset_nonzero"
                 /\ iter_ops[Len(iter_ops) - 1] = "make_constraints"
                 /\ nonzero_constraints = zero_constraints
                 /\ DOMAIN nonzero_constraints = DOMAIN RunPhysicalNonzero
                 /\ \A d \in DOMAIN nonzero_constraints : nonzero_constraints[d] = 0)

\* find_fluid_bc is about to run in the first iteration of a run restored at
\* step 1, the reset done.
C22_Witness ==
  /\ pc = "find_fluid_bc"
  /\ mesh_depth = 0
  /\ success_load
  /\ time_step = 1
  /\ "reset_nonzero" \in Range(iter_ops)
  /\ nonzero_constraints = RunPhysicalZero

\* The statements of run() at which the solid step of the iteration is still
\* to come, or all of the iteration is done.
ClocksLevel ==
  {"loop", "done", "find_solid_bc", "assemble_system", "solid_run_one_step",
   "initial_refine_mesh", "initial_execute_refinement", "initial_setup_cell_hints",
   "refine_mesh", "execute_refinement", "setup_cell_hints", "save_checkpoint",
   "save_fluid_checkpoint"}

\* The statements between the solid step and time.increment().
SolidAhead ==
  {"update_solid_box", "make_constraints", "reset_nonzero", "find_fluid_bc",
   "fluid_run_one_step", "time_increment"}

\* C27: when an iteration of the loop begins, in a fresh and in a restored
\* run, the orchestrator's step index is the solid solver's; the solid step
\* advances the solid's index by one and time.increment() the
\* orchestrator's, so that from the solid step to time.increment() the solid
\* is one step ahead and everywhere else the two are equal; no other
\* statement of the loop changes either.
C27_ClocksInStep ==
  /\ [](pc \in ClocksLevel => time_step = solid_timestep)
  /\ [](pc \in SolidAhead => solid_timestep = time_step + 1)
  /\ [][(pc = "solid_run_one_step" /\ pc' # pc) =>
          (solid_timestep' = solid_timestep + 1 /\ time_step' = time_step)]_vars
  /\ [][(pc = "time_increment" /\ pc' # pc) =>
          (time_step' = time_step + 1 /\ solid_timestep' = solid_timestep)]_vars
  /\ [][(pc \notin {"load_checkpoint", "check_times", "solid_run_one_step",
                     "time_increment"}) =>
          UNCHANGED <<time_step, solid_timestep>>]_vars

\* A run restored at step 1 begins its second iteration, both clocks at 2.
C27_Witness ==
  /\ pc = "find_solid_bc"
  /\ success_load
  /\ save_interval = 2
  /\ 2 \in fluid_saved
  /\ time_step = 2
  /\ solid_timestep = 2

----------------------------------------------------------------------------
(* SpecSolid: run_one_step of the solid solvers                             *)

MaxNewton == 2

MaxSolidSteps == 2

\* A vector of the solver, reduced to one value.
SolidValues == {0, 1}

NewtonMayIterateOnceMore(iteration, max) == iteration <= max

\* The condition of AssertThrow in the Newton loop.
NewtonMayIterate(iteration, max) == iteration < max

SolvesInitialAccelerationAlways(first) == TRUE

\* if (first_step): the initial acceleration is solved for.
SolvesInitialAcceleration(first) == first

SolverVectors ==
  <<previous_displacement, previous_velocity, previous_acceleration,
    so_displacement, current_velocity, current_acceleration>>

SolverInputs ==
  UNCHANGED <<so_kind, so_fresh, solid_max_iterations, so_simulation_type,
              so_refinement_interval, so_save_interval>>

\* The solver's clock, mesh and checkpoint files are left alone.
SolverClockMeshFiles == UNCHANGED <<so_timestep, so_refinements, so_checkpoints>>

\* SharedLinearElasticity::run_one_step: if (time.time_to_refine())
\* this->refine_mesh(1, 4); SharedHyperElasticity::run_one_step has no such
\* statement.
RefinesItsMesh(kind, type, timestep, interval) ==
  kind = "linear" /\ TimeTo(timestep, interval)

\* if (parameters.simulation_type == "Solid" && time.time_to_save())
SavesCheckpoint(type, timestep, interval) ==
  type = "Solid" /\ TimeTo(timestep, interval)

InitSolid ==
  /\ ParkPoint
  /\ ParkBC
  /\ ParkMesh
  /\ ParkMotion
  /\ ParkRun
  /\ ParkColl
  /\ so_pc = "idle"
  /\ so_kind \in {"hyper", "linear"}
  /\ so_fresh \in BOOLEAN
  /\ solid_max_iterations \in 0..MaxNewton
  /\ newton_iteration = 0
  /\ unconverged = FALSE
  /\ so_begun = 0
  /\ so_finalized = 0
  /\ previous_displacement \in (IF so_fresh THEN {0} ELSE SolidValues)
  /\ previous_velocity \in (IF so_fresh THEN {0} ELSE SolidValues)
  /\ previous_acceleration \in (IF so_fresh THEN {0} ELSE SolidValues)
  /\ so_displacement = previous_displacement
  /\ current_velocity = previous_velocity
  /\ current_acceleration = previous_acceleration
  /\ so_simulation_type \in {"FSI", "Solid"}
  /\ so_timestep = IF so_fresh THEN 0 ELSE 1
  /\ so_refinement_interval \in {1, 2}
  /\ so_save_interval \in {1, 2}
  /\ so_refinements = {}
  /\ so_checkpoints = {}

\* run_one_step up to the Newton loop (the linear solver has no loop): the
\* first step solves for the initial acceleration into previous_acceleration;
\* the errors are reset to 1, so the loop condition depends on the tolerances.
RunOneStepBegin ==
  /\ so_pc = "idle"
  /\ so_begun < MaxSolidSteps
  /\ so_begun' = so_begun + 1
  /\ IF SolvesInitialAcceleration(so_fresh /\ so_begun = 0)
       THEN previous_acceleration' \in SolidValues
       ELSE UNCHANGED previous_acceleration
  /\ newton_iteration' = 0
  /\ unconverged' \in (IF so_kind = "hyper" THEN BOOLEAN ELSE {FALSE})
  /\ so_pc' = "newton"
  /\ so_timestep' = so_timestep + 1
  /\ UNCHANGED <<so_refinements, so_checkpoints>>
  /\ UNCHANGED <<previous_displacement, previous_velocity, so_displacement,
                 current_velocity, current_acceleration, so_finalized>>
  /\ SolverInputs
  /\ UNCHANGED <<varsPt, varsBC, varsMesh, varsMo, varsRun, varsColl>>

\* One pass of the body of the Newton loop.
NewtonIteration ==
  /\ so_pc = "newton"
  /\ unconverged
  /\ NewtonMayIterate(newton_iteration, solid_max_iterations)
  /\ current_acceleration' \in SolidValues
  /\ current_velocity' \in SolidValues
  /\ so_displacement' \in SolidValues
  /\ unconverged' \in BOOLEAN
  /\ newton_iteration' = newton_iteration + 1
  /\ UNCHANGED <<so_pc, so_begun, so_finalized, previous_displacement,
                 previous_velocity, previous_acceleration>>
  /\ SolverClockMeshFiles
  /\ SolverInputs
  /\ UNCHANGED <<varsPt, varsBC, varsMesh, varsMo, varsRun, varsColl>>

\* AssertThrow(newton_iteration < parameters.solid_max_iterations, ...).
NewtonThrows ==
  /\ so_pc = "newton"
  /\ unconverged
  /\ ~NewtonMayIterate(newton_iteration, solid_max_iterations)
  /\ so_pc' = "thrown"
  /\ UNCHANGED <<newton_iteration, unconverged, so_begun, so_finalized>>
  /\ UNCHANGED SolverVectors
  /\ SolverClockMeshFiles
  /\ SolverInputs
  /\ UNCHANGED <<varsPt, varsBC, varsMesh, varsMo, varsRun, varsColl>>

\* After the loop: the current acceleration and velocity (and, in the linear
\* solver, the displacement) are computed and the previous values updated;
\* then the output, the refinement of the solver's mesh and the checkpoint,
\* each when its time has come.
FinalizeStep ==
  /\ so_pc = "newton"
  /\ ~unconverged
  /\ current_acceleration' \in SolidValues
  /\ current_velocity' \in SolidValues
  /\ so_displacement' \in (IF so_kind = "linear" THEN SolidValues ELSE {so_displacement})
  /\ previous_acceleration' = current_acceleration'
  /\ previous_velocity' = current_velocity'
  /\ previous_displacement' = so_displacement'
  /\ so_finalized' = so_finalized + 1
  /\ so_pc' = "idle"
  /\ so_refinements' =
       IF RefinesItsMesh(so_kind, so_simulation_type, so_timestep, so_refinement_interval)
         THEN so_refinements \cup {so_timestep} ELSE so_refinements
  /\ so_checkpoints' =
       IF SavesCheckpoint(so_simulation_type, so_timestep, so_save_interval)
         THEN so_checkpoints \cup {so_timestep} ELSE so_checkpoints
  /\ UNCHANGED so_timestep
  /\ UNCHANGED <<newton_iteration, unconverged, so_begun>>
  /\ SolverInputs
  /\ UNCHANGED <<varsPt, varsBC, varsMesh, varsMo, varsRun, varsColl>>

\* FSI::update_solid_displacement between two steps:
\* solid_solver.current_displacement = localized_solid_displacement.
CouplingWritesDisplacement ==
  /\ so_pc = "idle"
  /\ so_displacement' \in SolidValues \ {so_displacement}
  /\ UNCHANGED <<so_pc, newton_iteration, unconverged, so_begun, so_finalized,
                 previous_displacement, previous_velocity, previous_acceleration,
                 current_velocity, current_acceleration>>
  /\ SolverClockMeshFiles
  /\ SolverInputs
  /\ UNCHANGED <<varsPt, varsBC, varsMesh, varsMo, varsRun, varsColl>>

NextSolid ==
  \/ RunOneStepBegin
  \/ NewtonIteration
  \/ NewtonThrows
  \/ FinalizeStep
  \/ CouplingWritesDisplacement

SpecSolid == InitSolid /\ [][NextSolid]_vars

\* C15: the body of the Newton loop runs at most solid_max_iterations times
\* in a step; with the criteria unmet after that many passes the step
\* throws; at the throw the finalization block of the step has not run, and
\* nothing executes afterwards: no retry, no coupling operation, no step.
C15_NewtonBounded ==
  /\ [](newton_iteration <= solid_max_iterations)
  /\ [](so_pc = "thrown" =>
          /\ unconverged
          /\ newton_iteration = solid_max_iterations
          /\ so_finalized = so_begun - 1)
  /\ [][(so_pc = "newton" /\ unconverged
           /\ newton_iteration = solid_max_iterations) => so_pc' = "thrown"]_vars
  /\ [][so_pc # "thrown"]_vars

\* The second step has thrown after the loop body has run.
C15_Witness ==
  /\ so_pc = "thrown"
  /\ so_kind = "hyper"
  /\ newton_iteration > 0
  /\ so_begun = 2
  /\ so_finalized = 1

PreviousValues == <<previous_displacement, previous_velocity, previous_acceleration>>

\* The step is the finalization block of run_one_step.
IsFinalization ==
  /\ so_pc = "newton" /\ ~unconverged /\ so_pc' = "idle"
  /\ so_finalized' = so_finalized + 1
  /\ previous_displacement' = so_displacement'
  /\ previous_velocity' = current_velocity'
  /\ previous_acceleration' = current_acceleration'

C26_SolverNeverRefinesNorSavesInFSI ==
  [][so_simulation_type = "FSI" => UNCHANGED <<so_refinements, so_checkpoints>>]_vars

\* What the code does (C26): in an FSI run neither solver writes a checkpoint
\* and the hyperelastic solver does not refine, but the linear elastic solver
\* refines its mesh at the end of every step whose index satisfies the
\* refinement predicate.
C26_LinearSolverRefinesInFSI ==
  /\ [][so_simulation_type = "FSI" => UNCHANGED so_checkpoints]_vars
  /\ [][so_kind = "hyper" => UNCHANGED so_refinements]_vars
  /\ [][(so_kind = "linear" /\ so_pc = "newton" /\ so_pc' = "idle") =>
          (so_timestep \in so_refinements'
             <=> TimeTo(so_timestep, so_refinement_interval))]_vars

\* The linear elastic solver has refined its mesh in an FSI run.
LinearSolverRefinedInFSI ==
  /\ so_simulation_type = "FSI"
  /\ so_kind = "linear"
  /\ so_pc = "idle"
  /\ so_refinements # {}

----------------------------------------------------------------------------
(* SpecTraction: find_solid_bc and the Neumann part of the solid assembly,  *)
(* executed by every process.  The solid triangulation is shared: every     *)
(* process has all the solid cells, and a cell is assembled by the process  *)
(* whose subdomain it is in.                                                *)

NProcs == 2

MaxCouplingSteps == 2

Procs == 0..(NProcs - 1)

\* GeometryInfo<2>::faces_per_cell
faces_per_cell == 4

\* solid_solver.face_quad_formula.size()
n_face_q_points == 2

\* cell->face(f)->at_boundary() in the row of SolidNx cells: face 0 is the
\* left side, 1 the right, 2 the bottom, 3 the top.
at_boundary(cell, f) ==
  \/ f \in {2, 3}
  \/ f = 0 /\ cell = 1
  \/ f = 1 /\ cell = SolidNx

\* cell->face(f)->boundary_id(): the sides of the solid are numbered alike.
boundary_id(cell, f) == f

\* The face quadrature points, in the order of the loops over the cells, the
\* faces of a cell and the quadrature points of a face.
FacePoints ==
  [n \in 1..(SolidNx * faces_per_cell * n_face_q_points) |->
     [cell |-> ((n - 1) \div (faces_per_cell * n_face_q_points)) + 1,
      face |-> ((n - 1) \div n_face_q_points) % faces_per_cell,
      q |-> (n - 1) % n_face_q_points]]

PointAtBoundary(pt) == at_boundary(pt.cell, pt.face)

VisitsOwnedCellsOnly(proc, owner, pt) == PointAtBoundary(pt) /\ owner[pt.cell] = proc

\* The points at which find_solid_bc on process proc goes through the body
\* of its innermost loop: those of the boundary faces of all the cells.
VisitedByFindSolidBC(proc, owner, pt) == PointAtBoundary(pt)

Visits(proc) ==
  SelectSeq(FacePoints, LAMBDA pt : VisitedByFindSolidBC(proc, tr_owner, pt))

PointNumber(pt) ==
  (pt.cell - 1) * faces_per_cell * n_face_q_points + pt.face * n_face_q_points + pt.q

\* The fluid stress at a point of the solid boundary in a coupling step.
FluidStress(pt, step) ==
  step * SolidNx * faces_per_cell * n_face_q_points + PointNumber(pt) + 1

\* Which process has the fluid cell that contains the point.
HolderOf(pt, holder) == (PointNumber(pt) + holder) % NProcs

\* interpolator.point_value and point_gradient: the values of the fluid
\* solution on the process that has the cell around the point, zero on the
\* others.
LocalValue(proc, pt, step, holder) ==
  IF HolderOf(pt, holder) = proc THEN FluidStress(pt, step) ELSE 0

\* fe_face_values.normal_vector(q), along the axis the face is normal to.
Normal(f) == IF f \in {0, 2} THEN 0 - 1 ELSE 1

\* Utilities::MPI::sum over the contributions of all the processes.
RECURSIVE SumOver(_, _)
SumOver(posted, procs) ==
  IF procs = {} THEN 0
  ELSE LET p == CHOOSE x \in procs : TRUE
       IN  posted[p].value + SumOver(posted, procs \ {p})

\* The sums taken for one point: value and gradient of dim + 1 components.
ReductionsPerPoint == 2 * 3

\* find_solid_bc: ptr[f * n_face_q_points + q]->fsi_traction = ...
TractionIndex(f, q) == f * n_face_q_points + q

NeumannIndexByPoint(face, q) == q * faces_per_cell + face

\* assemble_system: traction = p[face * n_f_q_points + q]->fsi_traction
NeumannIndex(face, q) == face * n_face_q_points + q

RecordIndices == 0..(faces_per_cell * n_face_q_points - 1)

\* parameters.solid_neumann_bcs of a stand-alone solid run: a value for the
\* right side only.
solid_neumann_bcs == [id \in {1} |-> 5]

NotPosted == [point |-> 0, step |-> 0, value |-> 0]

\* The tractions applied at a point by an assembly: none, or one.
NotLoaded == {}

OnlyTraction == UNCHANGED <<varsCore, varsRf, varsNw, varsVol>>

InitTraction ==
  /\ ParkCore
  /\ ParkRefine
  /\ ParkNewton
  /\ ParkVolume
  /\ simulation_type \in {"FSI", "Solid"}
  /\ solid_neumann_bc_type \in {"Traction", "Pressure"}
  /\ tr_owner \in [1..SolidNx -> Procs]
  /\ tr_holder \in 0..1
  /\ tr_pc = [p \in Procs |-> IF simulation_type = "FSI" THEN "find_solid_bc"
                              ELSE "assemble"]
  /\ tr_step = [p \in Procs |-> 1]
  /\ tr_next = [p \in Procs |-> 1]
  /\ tr_posted = [p \in Procs |-> NotPosted]
  /\ tr_reductions = [p \in Procs |-> 0]
  /\ fsi_traction = [p \in Procs |-> [c \in 1..SolidNx |-> [i \in RecordIndices |-> 0]]]
  /\ tr_load = [p \in Procs |-> [n \in 1..Len(FacePoints) |-> NotLoaded]]

\* find_solid_bc up to the sums for the next point: the process has
\* interpolated the fluid solution there and enters Utilities::MPI::sum.
EntersSum(p) ==
  /\ tr_pc[p] = "find_solid_bc"
  /\ tr_posted[p] = NotPosted
  /\ tr_next[p] <= Len(Visits(p))
  /\ LET pt == Visits(p)[tr_next[p]] IN
       tr_posted' = [tr_posted EXCEPT ![p] =
                       [point |-> PointNumber(pt) + 1, step |-> tr_step[p],
                        value |-> LocalValue(p, pt, tr_step[p], tr_holder)]]
  /\ UNCHANGED <<simulation_type, solid_neumann_bc_type, tr_owner, tr_holder, tr_pc,
                 tr_step, tr_next, tr_reductions, fsi_traction, tr_load>>
  /\ OnlyTraction

\* Every process has entered the sums: they return the total on each of them,
\* and each stores stress * normal in the record of the point it is at.
SumReturns ==
  /\ \A p \in Procs : tr_posted[p] # NotPosted
  /\ fsi_traction' =
       [p \in Procs |->
          LET pt == Visits(p)[tr_next[p]] IN
            [fsi_traction[p] EXCEPT ![pt.cell][TractionIndex(pt.face, pt.q)] =
               SumOver(tr_posted, Procs) * Normal(pt.face)]]
  /\ tr_next' = [p \in Procs |-> tr_next[p] + 1]
  /\ tr_reductions' = [p \in Procs |-> tr_reductions[p] + ReductionsPerPoint]
  /\ tr_posted' = [p \in Procs |-> NotPosted]
  /\ UNCHANGED <<simulation_type, solid_neumann_bc_type, tr_owner, tr_holder, tr_pc,
                 tr_step, tr_load>>
  /\ OnlyTraction

\* The loops of find_solid_bc are over on process p.
FindSolidBCDone(p) ==
  /\ tr_pc[p] = "find_solid_bc"
  /\ tr_posted[p] = NotPosted
  /\ tr_next[p] > Len(Visits(p))
  /\ tr_pc' = [tr_pc EXCEPT ![p] = "assemble"]
  /\ UNCHANGED <<simulation_type, solid_neumann_bc_type, tr_owner, tr_holder,
                 tr_step, tr_next, tr_posted, tr_reductions, fsi_traction, tr_load>>
  /\ OnlyTraction

\* The traction assemble_system applies at a face quadrature point of a cell
\* of its subdomain; NotLoaded where it applies none.
NeumannTraction(p, pt) ==
  IF tr_owner[pt.cell] # p \/ ~at_boundary(pt.cell, pt.face)
    THEN NotLoaded
  ELSE IF simulation_type # "FSI"
            /\ boundary_id(pt.cell, pt.face) \notin DOMAIN solid_neumann_bcs
    THEN NotLoaded
  ELSE IF simulation_type # "FSI" /\ solid_neumann_bc_type = "Pressure"
    THEN {Normal(pt.face) * solid_neumann_bcs[boundary_id(pt.cell, pt.face)]}
  ELSE IF simulation_type = "FSI"
    THEN {fsi_traction[p][pt.cell][NeumannIndex(pt.face, pt.q)]}
  ELSE {solid_neumann_bcs[boundary_id(pt.cell, pt.face)]}

\* assemble_system on process p, inside the solid step that follows
\* find_solid_bc; the next coupling step begins after it.
AssembleSystem(p) ==
  /\ tr_pc[p] = "assemble"
  /\ tr_load' = [tr_load EXCEPT ![p] =
                   [n \in 1..Len(FacePoints) |-> NeumannTraction(p, FacePoints[n])]]
  /\ IF tr_step[p] < MaxCouplingSteps
       THEN /\ tr_step' = [tr_step EXCEPT ![p] = @ + 1]
            /\ tr_pc' = [tr_pc EXCEPT ![p] = IF simulation_type = "FSI"
                                               THEN "find_solid_bc" ELSE "assemble"]
            /\ tr_next' = [tr_next EXCEPT ![p] = 1]
       ELSE /\ tr_pc' = [tr_pc EXCEPT ![p] = "done"]
            /\ UNCHANGED <<tr_step, tr_next>>
  /\ UNCHANGED <<simulation_type, solid_neumann_bc_type, tr_owner, tr_holder,
                 tr_posted, tr_reductions, fsi_traction>>
  /\ OnlyTraction

NextTraction ==
  \/ \E p \in Procs : EntersSum(p)
  \/ SumReturns
  \/ \E p \in Procs : FindSolidBCDone(p)
  \/ \E p \in Procs : AssembleSystem(p)

SpecTraction == InitTraction /\ [][NextTraction]_vars

\* The coupling step of the last assembly of process p (0: none yet).
AssembledStep(p) == IF tr_pc[p] = "done" THEN tr_step[p] ELSE tr_step[p] - 1

\* The traction at a point in a coupling step: fluid stress times normal.
TractionAt(pt, step) == FluidStress(pt, step) * Normal(pt.face)

SpecTractionLive == SpecTraction /\ WF_vars(NextTraction)

\* The number of boundary-face quadrature points of the solid.
BoundaryPointCount ==
  Cardinality({n \in 1..Len(FacePoints) : PointAtBoundary(FacePoints[n])})

\* The point and the coupling step of the sum that process r enters next:
\* in the loops of find_solid_bc it is in, or at the beginning of those of
\* the next coupling step; <<0, 0>> when it enters none any more.
NextSum(r) ==
  IF tr_pc[r] = "find_solid_bc" /\ tr_next[r] <= Len(Visits(r))
    THEN <<PointNumber(Visits(r)[tr_next[r]]) + 1, tr_step[r]>>
  ELSE IF tr_pc[r] \in {"find_solid_bc", "assemble"}
            /\ tr_step[r] < MaxCouplingSteps /\ Visits(r) # <<>>
    THEN <<PointNumber(Visits(r)[1]) + 1, tr_step[r] + 1>>
  ELSE <<0, 0>>

----------------------------------------------------------------------------
(* SpecRefine: FSI::refine_mesh.  The fluid mesh is one-dimensional: the    *)
(* cell <<level, index>> is the index-th of the 2^level cells of its level,  *)
(* a refined cell has two children, and lengths are counted in halves of    *)
(* the finest cell that the levels up to max_grid_level allow.              *)

\* parameters.global_refinements[0]
min_grid_level == 1

\* refine_mesh(global_refinements[0], global_refinements[0] + 3)
max_grid_level == min_grid_level + 3

RECURSIVE Pow2(_)
Pow2(n) == IF n <= 0 THEN 1 ELSE 2 * Pow2(n - 1)

Level(cell) == cell[1]

CellWidth(cell) == 2 * Pow2(max_grid_level - Level(cell))

CellStart(cell) == cell[2] * CellWidth(cell)

\* f_cell->center()
CellCenter(cell) == CellStart(cell) + CellWidth(cell) \div 2

\* The centers of the cells of the moved solid: two cells one finest fluid
\* cell apart, in the places the solid may have reached; the last one is
\* outside the fluid domain.
SolidPlacements == {{c, c + 2} : c \in (1..8) \cup {12, 22, 40}}

\* double dist = 1000
dist_initial == 1000

\* dist = std::min(center.distance(s_cell->center()), dist) over the solid.
RECURSIVE MinDistance(_, _, _)
MinDistance(center, solid, dist) ==
  IF solid = {} THEN dist
  ELSE LET s == CHOOSE x \in solid : TRUE
       IN  MinDistance(center, solid \ {s}, Min2(AbsDiff(center, s), dist))

\* The threshold 0.1, in halves of the finest cell.
Proximity == 2

\* The first loop: set_refine_flag or set_coarsen_flag on every active cell.
MarkedFlags(mesh, solid) ==
  [c \in mesh |->
     IF MinDistance(CellCenter(c), solid, dist_initial) < Proximity
       THEN "refine" ELSE "coarsen"]

\* triangulation.n_levels()
n_levels(mesh) == 1 + CHOOSE l \in {Level(c) : c \in mesh} :
                        \A c \in mesh : Level(c) <= l

ClearsRefineFlagAbove(mesh, cell, max_level) == Level(cell) > max_level

\* The second loop reaches the cell: the active cells of the levels from
\* max_grid_level on, when there are that many levels.
ClearsRefineFlag(mesh, cell, max_level) ==
  n_levels(mesh) > max_level /\ Level(cell) >= max_level

\* The third loop reaches the cell: the active cells of level min_grid_level.
ClearsCoarsenFlag(cell, min_level) == Level(cell) = min_level

\* The flags after the second and the third loop.
ClearedFlags(mesh, flags, min_level, max_level) ==
  [c \in mesh |->
     IF flags[c] = "refine" /\ ClearsRefineFlag(mesh, c, max_level) THEN "none"
     ELSE IF flags[c] = "coarsen" /\ ClearsCoarsenFlag(c, min_level) THEN "none"
     ELSE flags[c]]

Sibling(cell) == <<cell[1], IF cell[2] % 2 = 0 THEN cell[2] + 1 ELSE cell[2] - 1>>

\* A cell is coarsened when it and its sibling are active and both flagged.
Coarsened(mesh, flags, cell) ==
  /\ Level(cell) > 0
  /\ flags[cell] = "coarsen"
  /\ Sibling(cell) \in mesh
  /\ flags[Sibling(cell)] = "coarsen"

\* The level of the cell, or of what replaces it, after the execution.
FutureLevel(mesh, flags, cell) ==
  IF flags[cell] = "refine" THEN Level(cell) + 1
  ELSE IF Coarsened(mesh, flags, cell) THEN Level(cell) - 1
  ELSE Level(cell)

Adjacent(a, b) ==
  \/ CellStart(a) + CellWidth(a) = CellStart(b)
  \/ CellStart(b) + CellWidth(b) = CellStart(a)

\* The cells that would end next to one more than one level finer.
Unbalanced(mesh, flags) ==
  {c \in mesh :
     /\ flags[c] # "refine"
     /\ \E n \in mesh :
          Adjacent(c, n) /\ FutureLevel(mesh, flags, n) > FutureLevel(mesh, flags, c) + 1}

\* triangulation.prepare_coarsening_and_refinement(): neighbours differ by
\* one level at most, for which coarsen flags are dropped and refine flags
\* added.
RECURSIVE prepare_coarsening_and_refinement(_, _)
prepare_coarsening_and_refinement(mesh, flags) ==
  IF Unbalanced(mesh, flags) = {} THEN flags
  ELSE LET c == CHOOSE x \in Unbalanced(mesh, flags) : TRUE
       IN  prepare_coarsening_and_refinement(mesh,
             [flags EXCEPT ![c] = IF @ = "coarsen" THEN "none" ELSE "refine"])

\* triangulation.execute_coarsening_and_refinement()
execute_coarsening_and_refinement(mesh, flags) ==
  UNION {IF flags[c] = "refine"
           THEN {<<Level(c) + 1, 2 * c[2]>>, <<Level(c) + 1, 2 * c[2] + 1>>}
         ELSE IF Coarsened(mesh, flags, c)
           THEN {<<Level(c) - 1, c[2] \div 2>>}
         ELSE {c} : c \in mesh}

\* The fluid mesh after triangulation.refine_global(global_refinements[0]).
GlobalMesh(level) == {<<level, i>> : i \in 0..(Pow2(level) - 1)}

OnlyRefine == UNCHANGED <<varsCore, varsTr, varsNw, varsVol>>

InitRefine ==
  /\ ParkCore
  /\ ParkTraction
  /\ ParkNewton
  /\ ParkVolume
  /\ rf_mesh = GlobalMesh(min_grid_level)
  /\ rf_before = {}
  /\ rf_solid = {}
  /\ rf_marked = <<>>
  /\ rf_flags = <<>>

\* refine_mesh(min_grid_level, max_grid_level) up to the execution of the
\* flags, wherever the solid is.
RefineMesh ==
  /\ \E solid \in SolidPlacements :
       /\ rf_solid' = solid
       /\ rf_marked' = MarkedFlags(rf_mesh, solid)
  /\ rf_before' = rf_mesh
  /\ rf_flags' = ClearedFlags(rf_mesh, rf_marked', min_grid_level, max_grid_level)
  /\ rf_mesh' = execute_coarsening_and_refinement(rf_mesh,
                  prepare_coarsening_and_refinement(rf_mesh, rf_flags'))
  /\ OnlyRefine

NextRefine == RefineMesh

SpecRefine == InitRefine /\ [][NextRefine]_vars

\* The cell covers the place x, counted like the lengths.
Covers(cell, x) == CellStart(cell) <= x /\ x < CellStart(cell) + CellWidth(cell)

\* C24: the first loop of refine_mesh flags every active fluid cell, for
\* refinement when its center is less than the threshold away from the
\* center of some moved solid cell and for coarsening otherwise; afterwards
\* no active cell of level max_level or more is flagged for refinement and
\* none of level min_level for coarsening, the other flags being kept; and
\* from a mesh of level min_level, after any number of calls, the active
\* cells cover the domain once and have levels from min_level to max_level.
C24_FlagsClampedLevelsKept ==
  /\ \A c \in rf_mesh : min_grid_level <= Level(c) /\ Level(c) <= max_grid_level
  /\ \A x \in 0..(2 * Pow2(max_grid_level) - 1) :
       Cardinality({c \in rf_mesh : Covers(c, x)}) = 1
  /\ rf_before # {} =>
       \A c \in rf_before :
         /\ rf_marked[c] \in {"refine", "coarsen"}
         /\ rf_marked[c] = "refine" <=>
              \E s \in rf_solid : AbsDiff(CellCenter(c), s) < Proximity
         /\ Level(c) >= max_grid_level => rf_flags[c] # "refine"
         /\ Level(c) = min_grid_level => rf_flags[c] # "coarsen"
         /\ (rf_marked[c] = "refine" /\ Level(c) < max_grid_level) =>
              rf_flags[c] = "refine"
         /\ (rf_marked[c] = "coarsen" /\ Level(c) > min_grid_level) =>
              rf_flags[c] = "coarsen"

\* A call has found the solid at the center of a cell of level max_level,
\* whose refine flag it has cleared, in a mesh that has a cell of level
\* min_level flagged for coarsening in the first loop, and it has coarsened
\* cells elsewhere.
C24_Witness ==
  /\ \E c \in rf_before :
       Level(c) = max_grid_level /\ rf_marked[c] = "refine" /\ rf_flags[c] = "none"
  /\ \E c \in rf_before :
       Level(c) = min_grid_level /\ rf_marked[c] = "coarsen" /\ rf_flags[c] = "none"
  /\ \E c \in rf_before : c \notin rf_mesh /\ \E d \in rf_mesh : Level(d) < Level(c)

----------------------------------------------------------------------------
(* SpecNewton: the Newton loop of HyperElasticity::run_one_step (serial)    *)
(* and of SharedHyperElasticity::run_one_step (MPI), fed with the same      *)
(* errors.  An error is a whole number of units of 1e-12; a normalized      *)
(* error is kept as the pair <<error, initial error>> it is the quotient of.*)

MaxErrors == 2

\* The errors a pass may yield: zero, exactly 1e-12, and above.
ErrorValues == {0, 1, 8}

Tolerances == {<<1, 2>>, <<1, 8>>}

\* error_residual = 1.0 and the like before the loop: a value far above 1e-12.
one == 1000

\* 1e-12 in the loop conditions.
tiny == 1

\* normalized > tol for normalized = error / initial in floating point: x / 0
\* is +inf for x > 0 and 0 / 0 is a NaN, which is above nothing.
NormalizedAbove(normalized, tol) ==
  IF normalized[2] = 0
    THEN normalized[1] > 0
    ELSE normalized[1] * tol[2] > tol[1] * normalized[2]

\* The condition of the while loop of HyperElasticity::run_one_step.
SerialContinues(st) ==
  /\ \/ NormalizedAbove(st.normalized_error_update, tol_d)
     \/ NormalizedAbove(st.normalized_error_residual, tol_f)
  /\ st.error_residual > tiny
  /\ st.error_update > tiny

\* The condition of the while loop of SharedHyperElasticity::run_one_step.
SharedContinues(st) ==
  /\ \/ NormalizedAbove(st.normalized_error_update, tol_d)
     \/ NormalizedAbove(st.normalized_error_residual, tol_f)
  /\ st.error_update > tiny
  /\ st.error_update > tiny

Solvers == {"HyperElasticity", "SharedHyperElasticity"}

Continues(solver, st) ==
  IF solver = "HyperElasticity" THEN SerialContinues(st) ELSE SharedContinues(st)

\* "Reset the errors, iteration counter, and the solution increment".
NewtonReset ==
  [pc |-> "newton", newton_iteration |-> 0,
   error_residual |-> one, initial_error_residual |-> one,
   normalized_error_residual |-> <<one, one>>,
   error_update |-> one, initial_error_update |-> one,
   normalized_error_update |-> <<one, one>>]

\* "Error evaluation" of a pass that yields the errors e = <<residual, update>>,
\* and newton_iteration++.
ErrorEvaluation(st, e) ==
  LET init_r == IF st.newton_iteration = 0 THEN e[1] ELSE st.initial_error_residual
      init_u == IF st.newton_iteration = 0 THEN e[2] ELSE st.initial_error_update
  IN  [st EXCEPT !.error_residual = e[1],
                 !.initial_error_residual = init_r,
                 !.normalized_error_residual = <<e[1], init_r>>,
                 !.error_update = e[2],
                 !.initial_error_update = init_u,
                 !.normalized_error_update = <<e[2], init_u>>,
                 !.newton_iteration = @ + 1]

OnlyNewton == UNCHANGED <<varsCore, varsTr, varsRf, varsVol>>

InitNewton ==
  /\ ParkCore
  /\ ParkTraction
  /\ ParkRefine
  /\ ParkVolume
  /\ tol_d \in Tolerances
  /\ tol_f \in Tolerances
  /\ nw_max_iterations \in 1..MaxErrors
  /\ nw_errors \in [1..MaxErrors -> ErrorValues \X ErrorValues]
  /\ nw_solver = [s \in Solvers |-> NewtonReset]

\* One pass of the while loop of the solver s.
NewtonPass(s) ==
  /\ nw_solver[s].pc = "newton"
  /\ Continues(s, nw_solver[s])
  /\ nw_solver[s].newton_iteration < nw_max_iterations
  /\ nw_solver' = [nw_solver EXCEPT
       ![s] = ErrorEvaluation(@, nw_errors[@.newton_iteration + 1])]
  /\ UNCHANGED <<tol_d, tol_f, nw_max_iterations, nw_errors>>
  /\ OnlyNewton

\* AssertThrow(newton_iteration < parameters.solid_max_iterations, ...) fails.
NewtonAbort(s) ==
  /\ nw_solver[s].pc = "newton"
  /\ Continues(s, nw_solver[s])
  /\ ~(nw_solver[s].newton_iteration < nw_max_iterations)
  /\ nw_solver' = [nw_solver EXCEPT ![s].pc = "thrown"]
  /\ UNCHANGED <<tol_d, tol_f, nw_max_iterations, nw_errors>>
  /\ OnlyNewton

\* The loop condition is false: the step is finalized.
NewtonExit(s) ==
  /\ nw_solver[s].pc = "newton"
  /\ ~Continues(s, nw_solver[s])
  /\ nw_solver' = [nw_solver EXCEPT ![s].pc = "converged"]
  /\ UNCHANGED <<tol_d, tol_f, nw_max_iterations, nw_errors>>
  /\ OnlyNewton

NextNewton == \E s \in Solvers : NewtonPass(s) \/ NewtonAbort(s) \/ NewtonExit(s)

SpecNewton == InitNewton /\ [][NextNewton]_vars

\* C29: fed with the same errors, the serial and the MPI solver leave the
\* Newton loop after the same number of passes and in the same way (converged
\* or by the exception).
C29_SameNewtonPasses ==
  (\A s \in Solvers : nw_solver[s].pc # "newton") =>
    /\ nw_solver["HyperElasticity"].newton_iteration
         = nw_solver["SharedHyperElasticity"].newton_iteration
    /\ nw_solver["HyperElasticity"].pc = nw_solver["SharedHyperElasticity"].pc

\* The serial solver has left the loop after a pass whose residual error was
\* not above 1e-12, the MPI solver made a further pass on the same errors.
C29_SharedSolverIteratesOn ==
  /\ nw_solver["HyperElasticity"].pc = "converged"
  /\ nw_solver["HyperElasticity"].newton_iteration = 1
  /\ nw_solver["HyperElasticity"].error_residual <= tiny
  /\ nw_solver["HyperElasticity"].error_update > tiny
  /\ nw_solver["SharedHyperElasticity"].newton_iteration = 2

----------------------------------------------------------------------------
(* SpecVolume: SharedHyperElasticity::compute_volume, called on every       *)
(* process of the communicator.                                             *)

NVolCells == 3

VolCells == 1..NVolCells

\* det_F * JxW summed over the quadrature points of a cell.
CellVolumes == {1, 2}

\* The loop over the active cells on process p.
RECURSIVE LocalVolume(_, _)
LocalVolume(p, cell) ==
  IF cell > NVolCells THEN 0
  ELSE (IF vol_owner[cell] # p THEN 0 ELSE vol_cell[cell]) + LocalVolume(p, cell + 1)

\* Utilities::MPI::sum(t, comm): the sum over the processes of their t.
RECURSIVE AllReduceSum(_, _)
AllReduceSum(t, procs) ==
  IF procs = {} THEN 0
  ELSE LET p == CHOOSE x \in procs : TRUE
       IN  t[p] + AllReduceSum(t, procs \ {p})

\* The statement "Utilities::MPI::sum(volume, mpi_communicator);": the sum is
\* the value of the call, which the statement does not use; the argument is
\* passed by const reference.
VolumeAfterSum(local, sum) == local

OnlyVolume == UNCHANGED <<varsCore, varsTr, varsRf, varsNw>>

InitVolume ==
  /\ ParkCore
  /\ ParkTraction
  /\ ParkRefine
  /\ ParkNewton
  /\ vol_owner \in [VolCells -> Procs]
  /\ vol_cell \in [VolCells -> CellVolumes]
  /\ vol_debug \in BOOLEAN
  /\ vol_pc = [p \in Procs |-> "loop"]
  /\ volume = [p \in Procs |-> 0]
  /\ vol_reduced = [p \in Procs |-> {}]
  /\ vol_result = [p \in Procs |-> {}]

\* Process p adds up its cells and enters the reduction.
VolumeCellLoop(p) ==
  /\ vol_pc[p] = "loop"
  /\ volume' = [volume EXCEPT ![p] = LocalVolume(p, 1)]
  /\ vol_pc' = [vol_pc EXCEPT ![p] = "sum"]
  /\ UNCHANGED <<vol_owner, vol_cell, vol_debug, vol_reduced, vol_result>>
  /\ OnlyVolume

\* The reduction completes once every process has entered it.
VolumeSumReturns ==
  /\ \A p \in Procs : vol_pc[p] = "sum"
  /\ vol_reduced' = [p \in Procs |-> {AllReduceSum(volume, Procs)}]
  /\ volume' = [p \in Procs |->
                  VolumeAfterSum(volume[p], AllReduceSum(volume, Procs))]
  /\ vol_pc' = [p \in Procs |-> "assert"]
  /\ UNCHANGED <<vol_owner, vol_cell, vol_debug, vol_result>>
  /\ OnlyVolume

\* Assert(volume > 0.0, ExcInternalError()) fails in a debug build.
VolumeAssertFails(p) ==
  /\ vol_pc[p] = "assert"
  /\ vol_debug
  /\ ~(volume[p] > 0)
  /\ vol_pc' = [vol_pc EXCEPT ![p] = "aborted"]
  /\ UNCHANGED <<vol_owner, vol_cell, vol_debug, volume, vol_reduced, vol_result>>
  /\ OnlyVolume

\* return volume;
ComputeVolumeReturns(p) ==
  /\ vol_pc[p] = "assert"
  /\ ~vol_debug \/ volume[p] > 0
  /\ vol_result' = [vol_result EXCEPT ![p] = {volume[p]}]
  /\ vol_pc' = [vol_pc EXCEPT ![p] = "returned"]
  /\ UNCHANGED <<vol_owner, vol_cell, vol_debug, volume, vol_reduced>>
  /\ OnlyVolume

NextVolume ==
  \/ \E p \in Procs : VolumeCellLoop(p)
  \/ VolumeSumReturns
  \/ \E p \in Procs : VolumeAssertFails(p)
  \/ \E p \in Procs : ComputeVolumeReturns(p)

SpecVolume == InitVolume /\ [][NextVolume]_vars

\* The volume of the whole solid.
GlobalVolume == AllReduceSum([p \in Procs |-> LocalVolume(p, 1)], Procs)

\* C30: compute_volume returns on every process the sum over all processes
\* of the contributions of their locally owned cells.
C30_ReturnsGlobalVolume ==
  \A p \in Procs :
    vol_pc[p] = "returned" => vol_result[p] = {GlobalVolume}

\* Both processes own cells; the reduction has produced the global volume on
\* process 1, which has returned its own part of it.
C30_ReturnsLocalVolume ==
  /\ \A p \in Procs : \E c \in VolCells : vol_owner[c] = p
  /\ vol_pc[1] = "returned"
  /\ vol_reduced[1] = {GlobalVolume}
  /\ vol_result[1] = {LocalVolume(1, 1)}
  /\ LocalVolume(1, 1) < GlobalVolume

====
